---- MODULE Spec2Model ----
(***************************************************************************)
(* Metered-job saga of the mini-app API: the stored procedures             *)
(* create_job_and_debit and refund_job (PostgreSQL, READ COMMITTED with    *)
(* row locks), the POST /generate handler that drives one job from         *)
(* admission to settlement, and the n8n executor adapter.                  *)
(***************************************************************************)
EXTENDS Integers, Sequences, FiniteSets, TLC

(***************************************************************************)
(* Bounds of the model.                                                    *)
(***************************************************************************)
MaxJobs == 2
MaxCalls == 2

Accounts == {"u1", "u2"}
Sagas == {"s1", "s2"}
Clients == {"c1", "c2"}
Procs == Sagas \cup Clients
NoProc == "none"
JobIds == 1..MaxJobs
\* the rows a users table starts with: (balance, promo_gen)
InitRows == {[balance |-> 100, promo_gen |-> 2], [balance |-> 10, promo_gen |-> 0]}

VARIABLES
    users,          \* public.users: account -> [balance, promo_gen]
    jobs,           \* public.jobs: sequence of rows, the id is the index
    transactions,   \* public.transactions: append-only sequence of rows
    userLock,       \* row lock on a users row: the transaction holding it
    jobLock,        \* row lock on a jobs row
    pc,             \* position of each handler or client
    tx,             \* locals of the stored procedure a process is running
    h,              \* locals of the POST /generate handler
    reply,          \* the HTTP reply of each handler
    events,         \* per job id: what has happened to the job, in order
    last,           \* per client: the result of its latest call
    calls,          \* number of direct calls issued so far
    initUsers,      \* the users table as it was at the start
    screen          \* per request: the GenerateScreen of the web client that sent it

vars == <<users, jobs, transactions, userLock, jobLock, pc, tx, h, reply,
          events, last, calls, initUsers,
          screen>>

ledger == <<users, jobs, transactions>>

(***************************************************************************)
(* Model catalog (packages/shared/src/models.ts).                          *)
(***************************************************************************)
ModelIds == {"nano-banana-pro", "google/nano-banana", "bytedance/seedance-1.5-pro",
             "wan/2-6-text-to-video", "wan/2-6-image-to-video",
             "wan/2-6-video-to-video", "sora-2-pro-text-to-video",
             "sora-2-pro-image-to-video"}

ModelType(m) ==
    IF m \in {"nano-banana-pro", "google/nano-banana"} THEN "image" ELSE "video"

NoRule == [kind |-> "none", min |-> 0, max |-> 0]

\* model.inputs: the {kind, min, max} rule, NoRule when the model declares none
ModelInputs(m) ==
    CASE m = "nano-banana-pro" -> [kind |-> "image", min |-> 0, max |-> 8]
      [] m = "bytedance/seedance-1.5-pro" -> [kind |-> "image", min |-> 0, max |-> 2]
      [] m = "wan/2-6-image-to-video" -> [kind |-> "image", min |-> 1, max |-> 1]
      [] m = "wan/2-6-video-to-video" -> [kind |-> "video", min |-> 1, max |-> 3]
      [] m = "sora-2-pro-image-to-video" -> [kind |-> "image", min |-> 1, max |-> 1]
      [] OTHER -> NoRule

\* Parameters are records [resolution, duration, generate_audio, n_frames, size];
\* "" stands for a key the client did not send.
Default(v, d) == IF v = "" THEN d ELSE v

ResolutionOptions(m) ==
    CASE m = "nano-banana-pro" -> {"1K", "2K", "4K"}
      [] m = "bytedance/seedance-1.5-pro" -> {"480p", "720p"}
      [] m \in {"wan/2-6-text-to-video", "wan/2-6-image-to-video",
                "wan/2-6-video-to-video"} -> {"720p", "1080p"}
      [] OTHER -> {}

DurationOptions(m) ==
    CASE m = "bytedance/seedance-1.5-pro" -> {"4", "8", "12"}
      [] m \in {"wan/2-6-text-to-video", "wan/2-6-image-to-video"} -> {"5", "10", "15"}
      [] m = "wan/2-6-video-to-video" -> {"5", "10"}
      [] OTHER -> {}

IsSora(m) == m \in {"sora-2-pro-text-to-video", "sora-2-pro-image-to-video"}

\* model.paramsSchema.parse succeeds: every sent key is one of the enum's options
\* (z.object strips keys the schema does not declare)
ParamsAccepted(m, p) ==
    /\ ResolutionOptions(m) # {} => p.resolution \in ResolutionOptions(m) \cup {""}
    /\ DurationOptions(m) # {} => p.duration \in DurationOptions(m) \cup {""}
    /\ m = "bytedance/seedance-1.5-pro" => p.generate_audio \in {"true", "false", ""}
    /\ IsSora(m) => /\ p.n_frames \in {"10", "15", ""}
                    /\ p.size \in {"standard", "high", ""}

\* the parsed parameters, defaults filled in
ParsedParams(m, p) ==
    [resolution |-> IF ResolutionOptions(m) = {} THEN ""
                    ELSE Default(p.resolution,
                                 CASE m = "nano-banana-pro" -> "1K"
                                   [] m = "bytedance/seedance-1.5-pro" -> "480p"
                                   [] OTHER -> "720p"),
     duration |-> IF DurationOptions(m) = {} THEN ""
                  ELSE Default(p.duration,
                               IF m = "bytedance/seedance-1.5-pro" THEN "4" ELSE "5"),
     generate_audio |-> IF m = "bytedance/seedance-1.5-pro"
                        THEN Default(p.generate_audio, "false") ELSE "",
     n_frames |-> IF IsSora(m) THEN Default(p.n_frames, "10") ELSE "",
     size |-> IF IsSora(m) THEN Default(p.size, "standard") ELSE ""]

seedanceCostTable ==
    [r \in {"480p", "720p"} |->
        IF r = "480p"
        THEN [d \in {"4", "8", "12"} |->
                CASE d = "4" -> [noAudio |-> 10, audio |-> 15]
                  [] d = "8" -> [noAudio |-> 15, audio |-> 20]
                  [] OTHER -> [noAudio |-> 17, audio |-> 27]]
        ELSE [d \in {"4", "8", "12"} |->
                CASE d = "4" -> [noAudio |-> 12, audio |-> 18]
                  [] d = "8" -> [noAudio |-> 18, audio |-> 34]
                  [] OTHER -> [noAudio |-> 30, audio |-> 50]]]

\* the table without its 1080p row
wanCostTable_No1080p ==
    [r \in {"720p"} |->
        [d \in {"5", "10", "15"} |->
            CASE d = "5" -> 50 [] d = "10" -> 90 [] OTHER -> 110]]

wanCostTable ==
    [r \in {"720p", "1080p"} |->
        IF r = "720p"
        THEN [d \in {"5", "10", "15"} |->
                CASE d = "5" -> 50 [] d = "10" -> 90 [] OTHER -> 110]
        ELSE [d \in {"5", "10", "15"} |->
                CASE d = "5" -> 65 [] d = "10" -> 110 [] OTHER -> 165]]

soraCostTable ==
    [s \in {"standard", "high"} |->
        IF s = "standard"
        THEN [n \in {"10", "15"} |-> IF n = "10" THEN 85 ELSE 140]
        ELSE [n \in {"10", "15"} |-> IF n = "10" THEN 180 ELSE 350]]

\* table[key] ?? 0 for a two-level table
Lookup2(table, a, b) ==
    IF a \in DOMAIN table /\ b \in DOMAIN table[a] THEN table[a][b] ELSE 0

\* model.computeCost(params) on parsed parameters q
ComputeCost(m, q) ==
    CASE m = "nano-banana-pro" -> IF q.resolution = "4K" THEN 20 ELSE 15
      [] m = "google/nano-banana" -> 7
      [] m = "bytedance/seedance-1.5-pro" ->
            IF q.resolution \in DOMAIN seedanceCostTable
               /\ q.duration \in DOMAIN seedanceCostTable[q.resolution]
            THEN IF q.generate_audio = "true"
                 THEN seedanceCostTable[q.resolution][q.duration].audio
                 ELSE seedanceCostTable[q.resolution][q.duration].noAudio
            ELSE 0
      [] m \in {"wan/2-6-text-to-video", "wan/2-6-image-to-video",
                "wan/2-6-video-to-video"} -> Lookup2(wanCostTable, q.resolution, q.duration)
      [] IsSora(m) -> Lookup2(soraCostTable, q.size, q.n_frames)
      [] OTHER -> 0

\* validateInputCount letting every list through for a model without a rule
InputValidation_NoRuleAcceptsAll(m, inputs) ==
    LET rule == ModelInputs(m) IN
    IF rule = NoRule
    THEN [ok |-> TRUE, message |-> <<>>]
    ELSE IF Len(inputs) < rule.min \/ Len(inputs) > rule.max
    THEN [ok |-> FALSE, message |-> <<"need", rule.min, rule.max, rule.kind>>]
    ELSE IF \E i \in 1..Len(inputs) : inputs[i] # rule.kind
    THEN LET w == CHOOSE i \in 1..Len(inputs) :
                     /\ inputs[i] # rule.kind
                     /\ \A k \in 1..(i - 1) : inputs[k] = rule.kind
         IN [ok |-> FALSE, message |-> <<"wrong kind", inputs[w]>>]
    ELSE [ok |-> TRUE, message |-> <<>>]

\* validateInputCount(model, inputs): {ok: true}, or {ok: false, message} where
\* the message is built from the rule (min, max, kind) or from the first input
\* of the wrong kind; <<>> stands for no message
InputValidation(m, inputs) ==
    LET rule == ModelInputs(m) IN
    IF rule = NoRule
    THEN IF Len(inputs) > 0
         THEN [ok |-> FALSE, message |-> <<"inputs not supported">>]
         ELSE [ok |-> TRUE, message |-> <<>>]
    ELSE IF Len(inputs) < rule.min \/ Len(inputs) > rule.max
    THEN [ok |-> FALSE, message |-> <<"need", rule.min, rule.max, rule.kind>>]
    ELSE IF \E i \in 1..Len(inputs) : inputs[i] # rule.kind
    THEN LET w == CHOOSE i \in 1..Len(inputs) :
                     /\ inputs[i] # rule.kind
                     /\ \A k \in 1..(i - 1) : inputs[k] = rule.kind
         IN [ok |-> FALSE, message |-> <<"wrong kind", inputs[w]>>]
    ELSE [ok |-> TRUE, message |-> <<>>]

\* validateInputCount without the check of each input's kind
ValidateInputCount_NoKindCheck(m, inputs) ==
    LET rule == ModelInputs(m) IN
    IF rule = NoRule
    THEN Len(inputs) = 0
    ELSE Len(inputs) >= rule.min /\ Len(inputs) <= rule.max

\* validateInputCount(model, inputs).ok; inputs is the sequence of input kinds
ValidateInputCount(m, inputs) == InputValidation(m, inputs).ok

(***************************************************************************)
(* Records.                                                                *)
(***************************************************************************)
NoTx == [fn |-> "none", p_telegram_id |-> "", p_model |-> "", p_type |-> "",
         p_base_cost |-> 0, p_counter |-> 0, p_job_id |-> 0,
         v_user_id |-> "", v_free_used |-> 0, v_charge_cost |-> 0,
         v_cost |-> 0, v_promo_used |-> 0]

\* what an rpc hands back: a raised exception (error) or the returned row
NoResult == [fn |-> "none", arg |-> 0, error |-> "", job_id |-> 0, balance |-> 0,
             promo_gen |-> 0, charged_cost |-> 0, txlen |-> 0]

Raised(fn, arg, code) == [NoResult EXCEPT !.fn = fn, !.arg = arg, !.error = code]

NoResp == [ok |-> FALSE, output_url |-> "", code |-> "", message |-> ""]

\* What the webhook request can end in: the transport (a network error, or the
\* abort fired by the timeout), the HTTP status, whether the body parses as JSON,
\* the ok discriminator ("none": absent, "other": present but not a boolean)
\* and the rest of the body.
NoOutcome == [transport |-> "ok", http_ok |-> TRUE, json |-> TRUE, okField |-> "none",
              output_url |-> "", code |-> "", message |-> ""]

NoParams == [resolution |-> "", duration |-> "", generate_audio |-> "",
             n_frames |-> "", size |-> ""]

\* a request body every check accepts; counter is <<>> when absent, <<n>> for
\* the integer n and <<n, f>> for the number n.f, a number with a fraction
\* cost is a price the client put into the body (<<>> when it sent none): the
\* body schema declares no such key and z.object drops it on parsing
NoBody == [model |-> "google/nano-banana", prompt |-> "a cat", params |-> NoParams,
           inputs |-> <<>>, counter |-> <<>>, cost |-> <<>>]

NoHandler == [telegram_id |-> "", body |-> NoBody, type |-> "",
              baseCost |-> 0, counter |-> 0, jobId |-> 0, balance |-> 0,
              promoGen |-> 0, chargedCost |-> 0, staged |-> FALSE,
              inputValidation |-> [ok |-> TRUE, message |-> <<>>],
              n8nPayload |-> [job_id |-> 0, counter |-> 0],
              outcome |-> NoOutcome, resp |-> NoResp, connected |-> TRUE]

NoReply == [status |-> 0, error |-> "", message |-> "", job |-> 0, jobStatus |-> "",
            output_url |-> "", hasUser |-> FALSE, balance |-> 0, promo_gen |-> 0]

\* the state of a GenerateScreen: its props (the account shown, mode, balance,
\* promoGen), the form (model, params, photoCount) and what it derives from them
NoScreen == [rendered |-> FALSE, account |-> "", mode |-> "", balance |-> 0,
             promoGen |-> 0, model |-> "", params |-> NoParams, photoCount |-> 1,
             counter |-> 0, cost |-> 0, payableCost |-> 0, hasEnoughBalance |-> FALSE]

Init ==
    /\ users \in [Accounts -> InitRows]
    /\ initUsers = users
    /\ jobs = <<>>
    /\ transactions = <<>>
    /\ userLock = [a \in Accounts |-> NoProc]
    /\ jobLock = [j \in JobIds |-> NoProc]
    /\ pc = [p \in Procs |-> IF p \in Sagas THEN "start" ELSE "idle"]
    /\ tx = [p \in Procs |-> NoTx]
    /\ h = [p \in Sagas |-> NoHandler]
    /\ reply = [p \in Sagas |-> NoReply]
    /\ events = [j \in JobIds |-> <<>>]
    /\ last = [c \in Clients |-> NoResult]
    /\ calls = 0
    /\ screen = [p \in Sagas |-> NoScreen]

(***************************************************************************)
(* Helpers over the tables.                                                *)
(***************************************************************************)
Greatest(a, b) == IF a >= b THEN a ELSE b
Least(a, b) == IF a <= b THEN a ELSE b

TxOfJob(j, type) ==
    {i \in 1..Len(transactions) :
        transactions[i].job_id = j /\ transactions[i].type = type}

\* refund_job without its idempotency check
RefundExistsFor_Never(j) == FALSE

\* exists (select 1 from transactions where job_id = p_job_id and type = 'refund')
RefundExistsFor(j) == TxOfJob(j, "refund") # {}

\* the selects without FOR UPDATE: nobody ever waits for a row
Locked_NoRowLock(lock, key) == FALSE

\* a row lock taken by SELECT ... FOR UPDATE (or by UPDATE) and held to commit
Locked(lock, key) == lock[key] # NoProc

\* free units not capped by the number of units requested
FreeUsed_Uncapped(promo_gen, counter) == Greatest(promo_gen, 0)

\* v_free_used := greatest(least(v_promo_gen, p_counter), 0)
FreeUsed(promo_gen, counter) == Greatest(Least(promo_gen, counter), 0)

\* v_charge_cost, clamped at 0
ChargeCost(base_cost, counter, free_used) ==
    LET c == (base_cost * counter) - (free_used * base_cost)
    IN IF c < 0 THEN 0 ELSE c

\* create_job_and_debit raising when the balance only just covers the charge
InsufficientBalance_OffByOne(balance, charge) == balance <= charge

\* if v_balance < v_charge_cost then raise exception 'insufficient_balance'
InsufficientBalance(balance, charge) == balance < charge

\* the debit transaction written with the charge as its amount
DebitAmount_Unsigned(charge) == charge

\* the amount of the debit transaction: -v_charge_cost
DebitAmount(charge) == 0 - charge

\* create_job_and_debit without its check of p_base_cost
InvalidCost_Unchecked(base_cost) == FALSE

\* if p_base_cost <= 0 then raise exception 'invalid_cost'
InvalidCost(base_cost) == base_cost <= 0

\* create_job_and_debit without its check of p_counter
InvalidCounter_Unchecked(counter) == FALSE

\* if p_counter <= 0 then raise exception 'invalid_counter'
InvalidCounter(counter) == counter <= 0

\* the refund's update of the balance lost
Credit_Lost(balance, cost) == balance

\* set balance = public.users.balance + v_cost
Credit(balance, cost) == balance + cost

\* the owner read from the newest job row instead of the row of p_job_id
JobOwner_OfNewestJob(j) == jobs[Len(jobs)].user_id

\* select user_id into v_user_id from public.jobs where id = p_job_id
JobOwner(j) == jobs[j].user_id

\* refund_job letting a job through that is still in flight
NotFailed_InFlightAllowed(status) == status \notin {"failed", "processing"}

\* if v_status <> 'failed' then raise exception 'job_not_failed'
NotFailed(status) == status # "failed"

\* check (type in ('image', 'video')) on public.jobs
JobTypes == {"image", "video"}

\* every statement of the function committed on its own: an exception leaves
\* the earlier writes in place
Rollback_Autocommit(before, after) == after

\* the function runs in one transaction: an exception undoes its writes
Rollback(before, after) == before

\* bound on the number of job rows: inserts already under way count
JobSlotFree ==
    Len(jobs) + Cardinality({q \in Procs : pc[q] = "debit_write"}) < MaxJobs

(***************************************************************************)
(* Executor adapter (apps/api/src/lib/n8n.ts).                             *)
(***************************************************************************)
ExecutorOutcomes ==
    { [NoOutcome EXCEPT !.transport = "aborted", !.message = "This operation was aborted"],
      [NoOutcome EXCEPT !.http_ok = FALSE],
      [NoOutcome EXCEPT !.json = FALSE, !.message = "Unexpected token"],
      NoOutcome,
      [NoOutcome EXCEPT !.okField = "true", !.output_url = "https://cdn/out"],
      [NoOutcome EXCEPT !.okField = "true"],
      [NoOutcome EXCEPT !.okField = "false", !.code = "render_failed",
                        !.message = "render failed"] }

\* every kind of end of the request: transport failures, HTTP error statuses
\* with any body, unparsable bodies, and JSON bodies with or without each field
ExecutorResponses ==
    { [NoOutcome EXCEPT !.transport = "aborted", !.message = "This operation was aborted"],
      [NoOutcome EXCEPT !.transport = "failed", !.message = "fetch failed"],
      [NoOutcome EXCEPT !.json = FALSE, !.message = "Unexpected token"] }
    \cup { [NoOutcome EXCEPT !.http_ok = FALSE, !.json = j, !.okField = k,
                             !.output_url = u] :
             j \in BOOLEAN, k \in {"none", "other", "true", "false"},
             u \in {"", "https://cdn/out"} }
    \cup { [NoOutcome EXCEPT !.okField = k, !.output_url = u, !.code = c[1],
                             !.message = c[2]] :
             k \in {"none", "other", "true", "false"}, u \in {"", "https://cdn/out"},
             c \in {<<"", "">>, <<"render_failed", "render failed">>,
                    <<"n8n_http_error", "quota exceeded">>} }

Failure(code, message) == [NoResp EXCEPT !.code = code, !.message = message]

\* the check written as data?.ok === undefined: any value of ok passes
LacksDiscriminator_UndefinedOnly(o) == o.okField = "none"

\* typeof data?.ok !== "boolean"
LacksDiscriminator(o) == o.okField \notin {"true", "false"}

\* the catch block reporting a rejected fetch as a malformed response
CallN8nWebhook_CatchMiscoded(o) ==
    IF o.transport # "ok"
    THEN Failure("n8n_invalid_response", "n8n response format invalid")
    ELSE IF ~o.http_ok THEN Failure("n8n_http_error", "n8n responded with status")
    ELSE IF ~o.json THEN Failure("n8n_fetch_error", o.message)
    ELSE IF LacksDiscriminator(o)
         THEN Failure("n8n_invalid_response", "n8n response format invalid")
    ELSE [ok |-> o.okField = "true", output_url |-> o.output_url,
          code |-> o.code, message |-> o.message]

\* the body read before response.ok is looked at: a body with a boolean ok
\* is returned whatever the status
CallN8nWebhook_BodyBeforeStatus(o) ==
    IF o.transport # "ok" THEN Failure("n8n_fetch_error", o.message)
    ELSE IF ~o.json THEN Failure("n8n_fetch_error", o.message)
    ELSE IF ~LacksDiscriminator(o)
         THEN [ok |-> o.okField = "true", output_url |-> o.output_url,
               code |-> o.code, message |-> o.message]
    ELSE IF ~o.http_ok THEN Failure("n8n_http_error", "n8n responded with status")
    ELSE Failure("n8n_invalid_response", "n8n response format invalid")

\* an executor failure reported under a code of the adapter's own
CallN8nWebhook_Wrapped(o) ==
    IF o.transport # "ok" THEN Failure("n8n_fetch_error", o.message)
    ELSE IF ~o.http_ok THEN Failure("n8n_http_error", "n8n responded with status")
    ELSE IF ~o.json THEN Failure("n8n_fetch_error", o.message)
    ELSE IF LacksDiscriminator(o)
         THEN Failure("n8n_invalid_response", "n8n response format invalid")
    ELSE IF o.okField = "true"
         THEN [ok |-> TRUE, output_url |-> o.output_url, code |-> o.code,
               message |-> o.message]
    ELSE Failure("n8n_error", "generation failed")

\* callN8nWebhook(payload), given how the request ends
CallN8nWebhook(o) ==
    IF o.transport # "ok" THEN Failure("n8n_fetch_error", o.message)
    ELSE IF ~o.http_ok THEN Failure("n8n_http_error", "n8n responded with status")
    ELSE IF ~o.json THEN Failure("n8n_fetch_error", o.message)
    ELSE IF LacksDiscriminator(o)
         THEN Failure("n8n_invalid_response", "n8n response format invalid")
    ELSE [ok |-> o.okField = "true", output_url |-> o.output_url,
          code |-> o.code, message |-> o.message]

(***************************************************************************)
(* rpc dispatch: PostgREST binds the arguments of supabase.rpc by name.    *)
(***************************************************************************)
\* the declared parameters of each function
RpcParams(fn) ==
    IF fn = "refund_job" THEN {"p_job_id"}
    ELSE {"p_telegram_id", "p_model", "p_type", "p_prompt", "p_params", "p_inputs",
          "p_base_cost", "p_counter"}

\* the parameters declared without a default
RpcRequired(fn) ==
    IF fn = "refund_job" THEN {"p_job_id"}
    ELSE {"p_telegram_id", "p_model", "p_type", "p_prompt", "p_base_cost"}

\* the keys of rpcPayload in POST /generate
HandlerDebitArgs == {"p_telegram_id", "p_model", "p_type", "p_prompt", "p_params",
                     "p_inputs", "p_base_cost", "p_counter"}

\* the keys the handler passes to refund_job
HandlerRefundArgs == {"job_id"}

\* a call resolves to the function when its argument names are parameters of
\* the function and cover the required ones
RpcResolves(fn, args) == args \subseteq RpcParams(fn) /\ RpcRequired(fn) \subseteq args

(***************************************************************************)
(* What a process does with the result of an rpc.                          *)
(***************************************************************************)
\* the handler going on to staging without looking at rpcError
SagaDebitReturn_IgnoreError(p, r) ==
    /\ pc' = [pc EXCEPT ![p] = "stage"]
    /\ h' = [h EXCEPT ![p].jobId = r.job_id, ![p].balance = r.balance,
                      ![p].promoGen = r.promo_gen, ![p].chargedCost = r.charged_cost]
    /\ reply' = reply

\* POST /generate after create_job_and_debit (rpcError, rpcRow)
SagaDebitReturn(p, r) ==
    IF r.error # ""
    THEN /\ pc' = [pc EXCEPT ![p] = "done"]
         /\ reply' = [reply EXCEPT ![p] = [NoReply EXCEPT !.status = 400,
                                                         !.error = "debit_failed"]]
         /\ h' = h
    ELSE /\ pc' = [pc EXCEPT ![p] = "stage"]
         /\ h' = [h EXCEPT ![p].jobId = r.job_id, ![p].balance = r.balance,
                           ![p].promoGen = r.promo_gen,
                           ![p].chargedCost = r.charged_cost]
         /\ reply' = reply

\* POST /generate after refund_job: the failure reply
SagaRefundReturn(p, r) ==
    /\ pc' = [pc EXCEPT ![p] = "done"]
    /\ h' = h
    /\ reply' = [reply EXCEPT ![p] =
          IF h[p].staged
          THEN [status |-> 500, error |-> h[p].resp.code,
                message |-> h[p].resp.message, job |-> h[p].jobId,
                jobStatus |-> "failed", output_url |-> "", hasUser |-> TRUE,
                balance |-> IF r.error = "" THEN r.balance ELSE h[p].balance,
                promo_gen |-> IF r.error = "" THEN r.promo_gen ELSE h[p].promoGen]
          ELSE [NoReply EXCEPT !.status = 500, !.error = "signed_url_failed",
                               !.message = "Failed to sign input",
                               !.job = h[p].jobId, !.jobStatus = "failed"]]

\* a direct caller of the procedures keeps the result of its latest call
ClientReturn(c, r) ==
    /\ pc' = [pc EXCEPT ![c] = "idle"]
    /\ last' = [last EXCEPT ![c] = r]

Return(p, r) ==
    /\ tx' = [tx EXCEPT ![p] = NoTx]
    /\ IF p \in Sagas
       THEN /\ IF r.fn = "create_job_and_debit"
               THEN SagaDebitReturn(p, r) ELSE SagaRefundReturn(p, r)
            /\ last' = last
       ELSE /\ ClientReturn(p, r)
            /\ UNCHANGED <<h, reply>>

(***************************************************************************)
(* create_job_and_debit (one transaction: select for update, then writes). *)
(***************************************************************************)
DebitSelect(p) ==
    /\ pc[p] = "debit_select"
    /\ UNCHANGED <<ledger, jobLock, events, calls, initUsers, screen>>
    /\ LET a == tx[p]
           u == a.p_telegram_id
           raise(code) == /\ Return(p, Raised("create_job_and_debit", 0, code))
                          /\ userLock' = userLock
       IN IF InvalidCost(a.p_base_cost) THEN raise("invalid_cost")
          ELSE IF InvalidCounter(a.p_counter) THEN raise("invalid_counter")
          ELSE IF u \notin Accounts THEN raise("user_not_found")
          ELSE /\ ~Locked(userLock, u)
               /\ LET free == FreeUsed(users[u].promo_gen, a.p_counter)
                      charge == ChargeCost(a.p_base_cost, a.p_counter, free)
                  IN IF InsufficientBalance(users[u].balance, charge)
                     THEN raise("insufficient_balance")
                     ELSE /\ JobSlotFree
                          /\ userLock' = [userLock EXCEPT ![u] = p]
                          /\ tx' = [tx EXCEPT ![p].v_user_id = u,
                                              ![p].v_free_used = free,
                                              ![p].v_charge_cost = charge]
                          /\ pc' = [pc EXCEPT ![p] = "debit_write"]
                          /\ UNCHANGED <<h, reply, last>>

DebitCommit(p) ==
    /\ pc[p] = "debit_write"
    /\ LET a == tx[p]
           u == a.v_user_id
           row == [balance |-> users[u].balance - a.v_charge_cost,
                   promo_gen |-> users[u].promo_gen - a.v_free_used]
           id == Len(jobs) + 1
       IN IF a.p_type \in JobTypes
          THEN /\ users' = [users EXCEPT ![u] = row]
               /\ jobs' = Append(jobs, [user_id |-> u, model |-> a.p_model,
                                        type |-> a.p_type,
                                        status |-> "processing", cost |-> a.v_charge_cost,
                                        promo_gen_used |-> a.v_free_used,
                                        output_url |-> "",
                                        error |-> "", error_message |-> "",
                                        finished |-> FALSE])
               /\ transactions' = Append(transactions,
                                         [user_id |-> u, job_id |-> id,
                                          amount |-> DebitAmount(a.v_charge_cost),
                                          type |-> "debit",
                                          promo_used |-> a.v_free_used])
               /\ userLock' = [userLock EXCEPT ![u] = NoProc]
               /\ Return(p, [NoResult EXCEPT !.fn = "create_job_and_debit",
                                             !.job_id = id,
                                             !.balance = row.balance,
                                             !.promo_gen = row.promo_gen,
                                             !.charged_cost = a.v_charge_cost,
                                             !.txlen = Len(transactions) + 1])
               /\ events' = [events EXCEPT ![id] = <<"debit">>]
          ELSE \* the insert into jobs violates the check: the update of users
               \* made just before is undone with the transaction
               /\ users' = [users EXCEPT ![u] = Rollback(users[u], row)]
               /\ UNCHANGED <<jobs, transactions, events>>
               /\ userLock' = [userLock EXCEPT ![u] = NoProc]
               /\ Return(p, Raised("create_job_and_debit", 0, "check_violation"))
    /\ UNCHANGED <<jobLock, calls, initUsers, screen>>

(***************************************************************************)
(* refund_job (one transaction).                                           *)
(***************************************************************************)
RefundSelect(p) ==
    /\ pc[p] = "refund_select"
    /\ UNCHANGED <<ledger, userLock, events, calls, initUsers, screen>>
    /\ LET j == tx[p].p_job_id
           raise(code) == /\ Return(p, Raised("refund_job", j, code))
                          /\ jobLock' = jobLock
       IN IF j \notin 1..Len(jobs) THEN raise("job_not_found")
          ELSE /\ ~Locked(jobLock, j)
               /\ IF NotFailed(jobs[j].status) THEN raise("job_not_failed")
                  ELSE /\ jobLock' = [jobLock EXCEPT ![j] = p]
                       /\ tx' = [tx EXCEPT ![p].v_user_id = JobOwner(j),
                                           ![p].v_cost = jobs[j].cost,
                                           ![p].v_promo_used = jobs[j].promo_gen_used]
                       /\ pc' = [pc EXCEPT ![p] = "refund_exists"]
                       /\ UNCHANGED <<h, reply, last>>

RefundExists(p) ==
    /\ pc[p] = "refund_exists"
    /\ UNCHANGED <<ledger, userLock, events, calls, initUsers, screen>>
    /\ LET j == tx[p].p_job_id
           u == tx[p].v_user_id
       IN IF RefundExistsFor(j)
          THEN /\ jobLock' = [jobLock EXCEPT ![j] = NoProc]
               /\ Return(p, [NoResult EXCEPT !.fn = "refund_job", !.arg = j,
                                             !.balance = users[u].balance,
                                             !.promo_gen = users[u].promo_gen,
                                             !.txlen = Len(transactions)])
          ELSE /\ pc' = [pc EXCEPT ![p] = "refund_write"]
               /\ UNCHANGED <<jobLock, tx, h, reply, last>>

RefundCommit(p) ==
    /\ pc[p] = "refund_write"
    /\ LET j == tx[p].p_job_id
           u == tx[p].v_user_id
           row == [balance |-> Credit(users[u].balance, tx[p].v_cost),
                   promo_gen |-> users[u].promo_gen + tx[p].v_promo_used]
       IN /\ ~Locked(userLock, u)
          /\ users' = [users EXCEPT ![u] = row]
          /\ transactions' = Append(transactions,
                                    [user_id |-> u, job_id |-> j, amount |-> tx[p].v_cost,
                                     type |-> "refund", promo_used |-> 0])
          /\ jobLock' = [jobLock EXCEPT ![j] = NoProc]
          /\ Return(p, [NoResult EXCEPT !.fn = "refund_job", !.arg = j,
                                        !.balance = row.balance,
                                        !.promo_gen = row.promo_gen,
                                        !.txlen = Len(transactions) + 1])
    /\ UNCHANGED <<jobs, userLock, events, calls, initUsers, screen>>

(***************************************************************************)
(* POST /generate (apps/api/src/server.ts).                                *)
(***************************************************************************)
\* request.user.telegram_id: the accounts of the users table, and one whose
\* row is gone while its token is still valid
Callers == Accounts \cup {"u0"}

\* the request bodies the handlers are given
Bodies ==
    { [NoBody EXCEPT !.prompt = ""],
      [NoBody EXCEPT !.counter = <<7>>],
      [NoBody EXCEPT !.counter = <<2, 5>>],
      [NoBody EXCEPT !.model = "midjourney"],
      [NoBody EXCEPT !.model = "nano-banana-pro", !.params.resolution = "8K"],
      [NoBody EXCEPT !.inputs = <<"image">>],
      [NoBody EXCEPT !.model = "wan/2-6-video-to-video", !.inputs = <<"image">>],
      [NoBody EXCEPT !.counter = <<2>>],
      [NoBody EXCEPT !.model = "nano-banana-pro", !.params.resolution = "4K",
                     !.inputs = <<"image">>],
      [NoBody EXCEPT !.model = "bytedance/seedance-1.5-pro", !.counter = <<3>>] }

\* bodySchema.safeParse(request.body).success
BodySchemaOk(b) ==
    /\ b.model # ""
    /\ b.prompt # ""
    /\ \A i \in 1..Len(b.inputs) : b.inputs[i] \in {"image", "video"}
    /\ \/ b.counter = <<>>
       \/ Len(b.counter) = 1 /\ b.counter[1] >= 1 /\ b.counter[1] <= 6

\* the requested counter used for models of every type
UnitCount_AnyType(b) == IF b.counter = <<>> THEN 1 ELSE b.counter[1]

\* model.type === "image" ? (parsed.data.counter ?? 1) : 1
UnitCount(b) ==
    IF ModelType(b.model) = "image"
    THEN IF b.counter = <<>> THEN 1 ELSE b.counter[1]
    ELSE 1

\* the price taken from the request when it carries one
BaseCost_ClientPrice(b) ==
    IF b.cost # <<>> THEN b.cost[1] ELSE ComputeCost(b.model, ParsedParams(b.model, b.params))

\* model.computeCost(modelParams)
BaseCost(b) == ComputeCost(b.model, ParsedParams(b.model, b.params))

\* the error code the admission checks reply with, "" when the request passes
Admission(b) ==
    IF ~BodySchemaOk(b) THEN "invalid_body"
    ELSE IF b.model \notin ModelIds THEN "unknown_model"
    ELSE IF ~ParamsAccepted(b.model, b.params) THEN "invalid_params"
    ELSE IF ~ValidateInputCount(b.model, b.inputs) THEN "invalid_inputs"
    ELSE IF BaseCost(b) <= 0 \/ BaseCost(b) * UnitCount(b) <= 0 THEN "invalid_cost"
    ELSE ""

\* validation, pricing and the create_job_and_debit call, for a request body
\* out of bodies
AdmitAny(p, bodies) ==
    /\ pc[p] = "start"
    /\ \E b \in bodies, u \in Callers :
         IF Admission(b) # ""
         THEN /\ pc' = [pc EXCEPT ![p] = "done"]
              /\ reply' = [reply EXCEPT ![p] = [NoReply EXCEPT !.status = 400,
                                                              !.error = Admission(b)]]
              /\ h' = [h EXCEPT ![p] = [NoHandler EXCEPT !.telegram_id = u,
                                                         !.body = b]]
              /\ tx' = tx
         ELSE /\ h' = [h EXCEPT ![p] = [NoHandler EXCEPT
                          !.telegram_id = u, !.body = b,
                          !.type = ModelType(b.model),
                          !.baseCost = BaseCost(b), !.counter = UnitCount(b)]]
              /\ IF RpcResolves("create_job_and_debit", HandlerDebitArgs)
                 THEN /\ tx' = [tx EXCEPT ![p] = [NoTx EXCEPT
                                  !.fn = "create_job_and_debit", !.p_telegram_id = u,
                                  !.p_model = b.model, !.p_type = ModelType(b.model),
                                  !.p_base_cost = BaseCost(b),
                                  !.p_counter = UnitCount(b)]]
                      /\ pc' = [pc EXCEPT ![p] = "debit_select"]
                      /\ reply' = reply
                 ELSE /\ pc' = [pc EXCEPT ![p] = "done"]
                      /\ reply' = [reply EXCEPT ![p] = [NoReply EXCEPT
                                      !.status = 400, !.error = "debit_failed"]]
                      /\ tx' = tx
    /\ UNCHANGED <<ledger, userLock, jobLock, events, last, calls, initUsers, screen>>

Admit(p) == AdmitAny(p, Bodies)

\* the webhook request sent but not awaited: the handler reads .ok of a pending
\* promise (undefined) and settles the job as failed while the request is in flight
StageInputs_NoAwait(p) ==
    /\ pc[p] = "stage"
    /\ h' = [h EXCEPT ![p].staged = TRUE,
                      ![p].n8nPayload = [job_id |-> h[p].jobId, counter |-> h[p].counter]]
    /\ events' = [events EXCEPT ![h[p].jobId] = Append(@, "invoke")]
    /\ pc' = [pc EXCEPT ![p] = "settle"]
    /\ UNCHANGED <<ledger, userLock, jobLock, tx, reply, last, calls, initUsers, screen>>

\* createSignedUrl for every input, then the webhook request is sent
StageInputs(p) ==
    /\ pc[p] = "stage"
    /\ \E signed \in BOOLEAN :
         /\ signed \/ Len(h[p].body.inputs) > 0
         /\ IF signed
            THEN /\ h' = [h EXCEPT ![p].staged = TRUE,
                                    ![p].n8nPayload = [job_id |-> h[p].jobId,
                                                       counter |-> h[p].counter]]
                 /\ events' = [events EXCEPT ![h[p].jobId] = Append(@, "invoke")]
                 /\ pc' = [pc EXCEPT ![p] = "executing"]
            ELSE /\ h' = [h EXCEPT ![p].resp =
                            Failure("signed_url_failed", "Failed to sign input")]
                 /\ events' = events
                 /\ pc' = [pc EXCEPT ![p] = "settle"]
    /\ UNCHANGED <<ledger, userLock, jobLock, tx, reply, last, calls, initUsers, screen>>

\* await callN8nWebhook(n8nPayload) completes, the request ending in one of
\* outcomes
Responds(p, outcomes) ==
    /\ pc[p] = "executing"
    /\ \E o \in outcomes : h' = [h EXCEPT ![p].outcome = o,
                                          ![p].resp = CallN8nWebhook(o)]
    /\ pc' = [pc EXCEPT ![p] = "settle"]
    /\ events' = [events EXCEPT ![h[p].jobId] = Append(@, "return")]
    /\ UNCHANGED <<ledger, userLock, jobLock, tx, reply, last, calls, initUsers, screen>>

ExecutorReturns(p) == Responds(p, ExecutorOutcomes)

ExecutorReturnsAny(p) == Responds(p, ExecutorResponses)

\* the update sent with the whole job object: cost goes back to its default
JobsUpdate_CostOverwritten(j, status, output_url, error) ==
    [jobs EXCEPT ![j] = [@ EXCEPT !.status = status,
                                  !.output_url = IF output_url = "" THEN @ ELSE output_url,
                                  !.error = IF error.code = "" THEN @ ELSE error.code,
                                  !.error_message =
                                      IF error.code = "" THEN @ ELSE error.message,
                                  !.cost = 0,
                                  !.finished = TRUE]]

\* supabase.from("jobs").update({...}).eq("id", jobId): one statement, whose
\* error the handler does not look at; undefined values are left out of the patch
JobsUpdate(j, status, output_url, error) ==
    [jobs EXCEPT ![j] = [@ EXCEPT !.status = status,
                                  !.output_url = IF output_url = "" THEN @ ELSE output_url,
                                  !.error = IF error.code = "" THEN @ ELSE error.code,
                                  !.error_message =
                                      IF error.code = "" THEN @ ELSE error.message,
                                  !.finished = TRUE]]

SettleSuccess(p) ==
    /\ pc[p] = "settle"
    /\ h[p].resp.ok
    /\ \E stored \in BOOLEAN :
         IF stored
         THEN /\ ~Locked(jobLock, h[p].jobId)
              /\ jobs' = JobsUpdate(h[p].jobId, "succeeded", h[p].resp.output_url, NoResp)
         ELSE jobs' = jobs
    \* the row is read back; when the read fails the reply is built from locals
    /\ \E read \in BOOLEAN :
         reply' = [reply EXCEPT ![p] =
          [status |-> 200, error |-> "", message |-> "", job |-> h[p].jobId,
           jobStatus |-> IF read THEN jobs'[h[p].jobId].status ELSE "succeeded",
           output_url |-> IF read THEN jobs'[h[p].jobId].output_url
                                  ELSE h[p].resp.output_url,
           hasUser |-> TRUE,
           balance |-> h[p].balance, promo_gen |-> h[p].promoGen]]
    /\ pc' = [pc EXCEPT ![p] = "done"]
    /\ events' = [events EXCEPT ![h[p].jobId] = Append(@, "settle")]
    /\ UNCHANGED <<users, transactions, userLock, jobLock, tx, h, last, calls,
                   initUsers, screen>>

\* the failure settlement giving the charge back itself, by a write of the
\* users row next to the jobs update
SettleFailure_WritesBalance(p) ==
    /\ pc[p] = "settle"
    /\ ~h[p].resp.ok
    /\ \E stored \in BOOLEAN :
         IF stored
         THEN /\ ~Locked(jobLock, h[p].jobId)
              /\ jobs' = JobsUpdate(h[p].jobId, "failed", "", h[p].resp)
         ELSE jobs' = jobs
    /\ users' = [users EXCEPT ![h[p].telegram_id].balance = @ + h[p].chargedCost]
    /\ pc' = [pc EXCEPT ![p] = "refund_call"]
    /\ events' = [events EXCEPT ![h[p].jobId] = Append(@, "settle")]
    /\ UNCHANGED <<transactions, userLock, jobLock, tx, h, reply, last, calls,
                   initUsers, screen>>

\* the update of the job to failed with the executor's error; refund_job is
\* called next
SettleFailure(p) ==
    /\ pc[p] = "settle"
    /\ ~h[p].resp.ok
    /\ \E stored \in BOOLEAN :
         IF stored
         THEN /\ ~Locked(jobLock, h[p].jobId)
              /\ jobs' = JobsUpdate(h[p].jobId, "failed", "", h[p].resp)
         ELSE jobs' = jobs
    /\ pc' = [pc EXCEPT ![p] = "refund_call"]
    /\ events' = [events EXCEPT ![h[p].jobId] = Append(@, "settle")]
    /\ UNCHANGED <<users, transactions, userLock, jobLock, tx, h, reply, last, calls,
                   initUsers, screen>>

\* supabase.rpc("refund_job", { job_id: jobId })
HandlerRefund(p) ==
    /\ pc[p] = "refund_call"
    /\ IF RpcResolves("refund_job", HandlerRefundArgs)
       THEN /\ tx' = [tx EXCEPT ![p] = [NoTx EXCEPT !.fn = "refund_job",
                                                    !.p_job_id = h[p].jobId]]
            /\ pc' = [pc EXCEPT ![p] = "refund_select"]
            /\ UNCHANGED <<h, reply>>
       ELSE /\ SagaRefundReturn(p, Raised("refund_job", h[p].jobId, "PGRST202"))
            /\ tx' = tx
    /\ events' = [events EXCEPT ![h[p].jobId] = Append(@, "refund_call")]
    /\ UNCHANGED <<ledger, userLock, jobLock, last, calls, initUsers, screen>>

\* The caller closes the connection while its request is being served. The
\* route registers no close listener and the AbortController of the webhook
\* call is wired to the timer only, so nothing but the socket changes.
Disconnect(p) ==
    /\ pc[p] \notin {"start", "done"}
    /\ h[p].connected
    /\ h' = [h EXCEPT ![p].connected = FALSE]
    /\ UNCHANGED <<ledger, userLock, jobLock, pc, tx, reply, events, last, calls,
                   initUsers, screen>>

(***************************************************************************)
(* Direct callers of the two procedures (any other session of the store).  *)
(***************************************************************************)
DirectDebitArgs ==
    [p_telegram_id : Accounts, p_base_cost : {30}, p_counter : {1}, p_type : {"image"}]
    \cup { [p_telegram_id |-> "u1", p_base_cost |-> 0, p_counter |-> 1,
            p_type |-> "image"],
           [p_telegram_id |-> "u1", p_base_cost |-> 30, p_counter |-> 0,
            p_type |-> "image"],
           [p_telegram_id |-> "u0", p_base_cost |-> 30, p_counter |-> 1,
            p_type |-> "image"],
           [p_telegram_id |-> "u1", p_base_cost |-> 30, p_counter |-> 1,
            p_type |-> "audio"] }

\* a session calls create_job_and_debit with arguments drawn from args
CallDebit(c, args) ==
    /\ pc[c] = "idle"
    /\ calls < MaxCalls
    /\ \E a \in args :
         tx' = [tx EXCEPT ![c] = [NoTx EXCEPT
                  !.fn = "create_job_and_debit", !.p_telegram_id = a.p_telegram_id,
                  !.p_model = "google/nano-banana", !.p_type = a.p_type,
                  !.p_base_cost = a.p_base_cost, !.p_counter = a.p_counter]]
    /\ pc' = [pc EXCEPT ![c] = "debit_select"]
    /\ calls' = calls + 1
    /\ UNCHANGED <<ledger, userLock, jobLock, h, reply, events, last, initUsers, screen>>

ClientCallDebit(c) == CallDebit(c, DirectDebitArgs)

ClientCallRefund(c) ==
    /\ pc[c] = "idle"
    /\ calls < MaxCalls
    /\ \E j \in JobIds :
         tx' = [tx EXCEPT ![c] = [NoTx EXCEPT !.fn = "refund_job", !.p_job_id = j]]
    /\ pc' = [pc EXCEPT ![c] = "refund_select"]
    /\ calls' = calls + 1
    /\ UNCHANGED <<ledger, userLock, jobLock, h, reply, events, last, initUsers, screen>>

(***************************************************************************)
(* Web client (apps/web/src/lib/telegram.ts, GenerateScreen).              *)
(***************************************************************************)
\* the cost estimate of a screen in the given mode, for the selected model, the
\* form's params and photoCount and the balance and promoGen props
GenerateScreen(account, mode, balance, promoGen, m, params, photoCount) ==
    LET baseCost == ComputeCost(m, ParsedParams(m, params))
        counter == IF mode = "image" THEN photoCount ELSE 1
        cost == baseCost * counter
        freeGen == IF mode = "image" THEN promoGen ELSE 0
        freeUsed == IF mode = "image" THEN Least(counter, Greatest(0, freeGen)) ELSE 0
        discountedCost == Greatest(cost - (freeUsed * baseCost), 0)
        payableCost == IF mode = "image" THEN discountedCost ELSE cost
    IN [rendered |-> TRUE, account |-> account, mode |-> mode, balance |-> balance,
        promoGen |-> promoGen, model |-> m, params |-> params,
        photoCount |-> photoCount, counter |-> counter, cost |-> cost,
        payableCost |-> payableCost, hasEnoughBalance |-> balance >= payableCost]

\* what the form can hold: photoCount of the range input (max={6}), params of
\* the selects
MaxPhotoCount == 6

ScreenParams ==
    { NoParams, [NoParams EXCEPT !.resolution = "4K"],
      [NoParams EXCEPT !.resolution = "720p", !.duration = "12",
                       !.generate_audio = "true"] }

\* the screen is rendered for an account with the balance and promoGen of its
\* users row; the models offered are those of the screen's mode
Render(p) ==
    /\ pc[p] = "start"
    /\ ~screen[p].rendered
    /\ \E a \in Accounts, m \in ModelIds, q \in ScreenParams, n \in 1..MaxPhotoCount :
         /\ ParamsAccepted(m, q)
         /\ screen' = [screen EXCEPT ![p] =
                          GenerateScreen(a, ModelType(m), users[a].balance,
                                         users[a].promo_gen, m, q, n)]
    /\ UNCHANGED <<ledger, userLock, jobLock, pc, tx, h, reply, events, last, calls,
                   initUsers>>

\* the payload of the screen's form: counter is photoCount in image mode, else
\* 1; the inputs are the uploaded files, here as many as the model asks for at
\* least, each of the kind of the model's rule
ScreenBody(sc) ==
    [NoBody EXCEPT !.model = sc.model, !.params = sc.params,
                   !.inputs = [i \in 1..ModelInputs(sc.model).min |->
                                  ModelInputs(sc.model).kind],
                   !.counter = <<IF sc.mode = "image" THEN sc.photoCount ELSE 1>>]

\* the form's payload is posted to /generate with the token of the account
\* shown (the disabled button is no barrier to the request itself)
ScreenSubmit(p) ==
    /\ screen[p].rendered
    /\ AdmitAny(p, {ScreenBody(screen[p])})
    /\ h'[p].telegram_id = screen[p].account

(***************************************************************************)
(* Specifications.                                                         *)
(***************************************************************************)
SagaNext ==
    \E p \in Sagas :
        \/ Admit(p)
        \/ StageInputs(p)
        \/ ExecutorReturns(p)
        \/ SettleSuccess(p)
        \/ SettleFailure(p)
        \/ HandlerRefund(p)

\* the requests the API serves concurrently
Next ==
    \/ SagaNext
    \/ \E p \in Sagas : DebitSelect(p) \/ DebitCommit(p)
    \/ \E p \in Sagas : Disconnect(p)

Spec == Init /\ [][Next]_vars

\* one request of the API next to other sessions calling the two procedures
LedgerSagas == {"s1"}

LedgerNext ==
    \/ \E p \in LedgerSagas :
          \/ Admit(p)
          \/ StageInputs(p)
          \/ ExecutorReturns(p)
          \/ SettleSuccess(p)
          \/ SettleFailure(p)
          \/ HandlerRefund(p)
    \/ \E p \in LedgerSagas \cup Clients : DebitSelect(p) \/ DebitCommit(p)
    \/ \E p \in Clients : RefundSelect(p) \/ RefundExists(p) \/ RefundCommit(p)
    \/ \E c \in Clients : ClientCallDebit(c) \/ ClientCallRefund(c)

LedgerSpec == Init /\ [][LedgerNext]_vars

\* one request whose executor call can end in any way
ExecutorSagas == {"s1"}

ExecutorNext ==
    \E p \in ExecutorSagas :
        \/ Admit(p)
        \/ DebitSelect(p)
        \/ DebitCommit(p)
        \/ StageInputs(p)
        \/ ExecutorReturnsAny(p)
        \/ SettleSuccess(p)
        \/ SettleFailure(p)
        \/ HandlerRefund(p)

ExecutorSpec == Init /\ [][ExecutorNext]_vars

\* validateInputCount alone, over every model of the catalog and every list of
\* at most MaxInputs inputs
MaxInputs == 9

InputLists == UNION {[1..n -> {"image", "video"}] : n \in 0..MaxInputs}

InputsSagas == {"s1"}

InputsInit ==
    /\ users \in [Accounts -> {[balance |-> 100, promo_gen |-> 2]}]
    /\ initUsers = users
    /\ jobs = <<>>
    /\ transactions = <<>>
    /\ userLock = [a \in Accounts |-> NoProc]
    /\ jobLock = [j \in JobIds |-> NoProc]
    /\ pc = [p \in Procs |-> IF p \in Sagas THEN "start" ELSE "idle"]
    /\ tx = [p \in Procs |-> NoTx]
    /\ \E m \in ModelIds, l \in InputLists :
         h = [p \in Sagas |-> IF p \in InputsSagas
                              THEN [NoHandler EXCEPT !.body.model = m, !.body.inputs = l]
                              ELSE NoHandler]
    /\ reply = [p \in Sagas |-> NoReply]
    /\ events = [j \in JobIds |-> <<>>]
    /\ last = [c \in Clients |-> NoResult]
    /\ calls = 0
    /\ screen = [p \in Sagas |-> NoScreen]

\* const inputValidation = validateInputCount(model, parsed.data.inputs) and
\* the 400 reply when it is not ok
CheckInputs(p) ==
    /\ pc[p] = "start"
    /\ LET r == InputValidation(h[p].body.model, h[p].body.inputs)
       IN /\ h' = [h EXCEPT ![p].inputValidation = r]
          /\ IF r.ok
             THEN /\ pc' = [pc EXCEPT ![p] = "validated"]
                  /\ reply' = reply
             ELSE /\ pc' = [pc EXCEPT ![p] = "done"]
                  /\ reply' = [reply EXCEPT ![p] = [NoReply EXCEPT
                                  !.status = 400, !.error = "invalid_inputs"]]
    /\ UNCHANGED <<ledger, userLock, jobLock, tx, events, last, calls, initUsers, screen>>

InputsNext == \E p \in InputsSagas : CheckInputs(p)

InputsSpec == InputsInit /\ [][InputsNext]_vars

\* two requests priced and debited side by side; the bodies agree pairwise on
\* model, validated parameters and counter and differ in what else they carry
PricedBodies ==
    { [NoBody EXCEPT !.counter = <<2>>],
      [NoBody EXCEPT !.counter = <<2>>, !.prompt = "a dog", !.cost = <<1>>],
      [NoBody EXCEPT !.model = "nano-banana-pro", !.inputs = <<"image">>],
      [NoBody EXCEPT !.model = "nano-banana-pro", !.params.resolution = "1K",
                     !.cost = <<0>>],
      [NoBody EXCEPT !.model = "nano-banana-pro", !.params.resolution = "4K"],
      [NoBody EXCEPT !.model = "bytedance/seedance-1.5-pro", !.counter = <<3>>,
                     !.cost = <<5>>],
      [NoBody EXCEPT !.model = "bytedance/seedance-1.5-pro", !.counter = <<3>>,
                     !.inputs = <<"image", "image">>] }

AdmitPriced(p) == AdmitAny(p, PricedBodies)

BillingNext ==
    \E p \in Sagas : AdmitPriced(p) \/ DebitSelect(p) \/ DebitCommit(p)

BillingSpec == Init /\ [][BillingNext]_vars

\* one web client: its screen's estimate, then its request priced and debited
ScreenRows == [balance : {0, 10, 14, 50, 100}, promo_gen : 0..2]

ScreenSagas == {"s1"}

ScreenInit ==
    /\ users \in [Accounts -> ScreenRows]
    /\ initUsers = users
    /\ jobs = <<>>
    /\ transactions = <<>>
    /\ userLock = [a \in Accounts |-> NoProc]
    /\ jobLock = [j \in JobIds |-> NoProc]
    /\ pc = [p \in Procs |-> IF p \in Sagas THEN "start" ELSE "idle"]
    /\ tx = [p \in Procs |-> NoTx]
    /\ h = [p \in Sagas |-> NoHandler]
    /\ reply = [p \in Sagas |-> NoReply]
    /\ events = [j \in JobIds |-> <<>>]
    /\ last = [c \in Clients |-> NoResult]
    /\ calls = 0
    /\ screen = [p \in Sagas |-> NoScreen]

ScreenNext ==
    \E p \in ScreenSagas :
        Render(p) \/ ScreenSubmit(p) \/ DebitSelect(p) \/ DebitCommit(p)

ScreenSpec == ScreenInit /\ [][ScreenNext]_vars

\* one request for every model of the catalog and every combination of the
\* parameters that enter a price, each option of every schema and an absent key
\* included; the inputs are as many as the model asks for at least
CatalogParams ==
    [resolution : {"", "1K", "2K", "4K", "480p", "720p", "1080p"},
     duration : {"", "4", "5", "8", "10", "12", "15"},
     generate_audio : {"", "true", "false"},
     n_frames : {"", "10", "15"},
     size : {"", "standard", "high"}]

CatalogBodies ==
    { [NoBody EXCEPT !.model = m, !.params = q,
                     !.inputs = [i \in 1..ModelInputs(m).min |-> ModelInputs(m).kind]] :
        m \in ModelIds, q \in CatalogParams }

CatalogSagas == {"s1"}

AdmitCatalog(p) == AdmitAny(p, CatalogBodies)

CatalogNext ==
    \E p \in CatalogSagas : AdmitCatalog(p) \/ DebitSelect(p) \/ DebitCommit(p)

CatalogSpec == Init /\ [][CatalogNext]_vars

\* create_job_and_debit alone, over a range of account rows and arguments
PricingRows == [balance : {0, 30, 100}, promo_gen : 0..3]

PricingArgs == [p_telegram_id : Accounts, p_base_cost : {7, 30}, p_counter : 1..3,
                p_type : {"image"}]

PricingClients == {"c1"}

PricingInit ==
    /\ users \in [Accounts -> PricingRows]
    /\ initUsers = users
    /\ jobs = <<>>
    /\ transactions = <<>>
    /\ userLock = [a \in Accounts |-> NoProc]
    /\ jobLock = [j \in JobIds |-> NoProc]
    /\ pc = [p \in Procs |-> IF p \in Sagas THEN "start" ELSE "idle"]
    /\ tx = [p \in Procs |-> NoTx]
    /\ h = [p \in Sagas |-> NoHandler]
    /\ reply = [p \in Sagas |-> NoReply]
    /\ events = [j \in JobIds |-> <<>>]
    /\ last = [c \in Clients |-> NoResult]
    /\ calls = 0
    /\ screen = [p \in Sagas |-> NoScreen]

PricingCallDebit(c) == CallDebit(c, PricingArgs)

PricingNext ==
    \E c \in PricingClients : PricingCallDebit(c) \/ DebitSelect(c) \/ DebitCommit(c)

PricingSpec == PricingInit /\ [][PricingNext]_vars

(***************************************************************************)
(* Properties of the ledger.                                               *)
(***************************************************************************)
RefundCount(j) == Cardinality(TxOfJob(j, "refund"))
DebitCount(j) == Cardinality(TxOfJob(j, "debit"))

\* a refund_job call that returned a row
RefundOk(r, j) == r.fn = "refund_job" /\ r.arg = j /\ r.error = ""

\* C1: in every reachable state every account has balance >= 0 and
\* promo_gen >= 0, whatever the interleaving of create_job_and_debit and
\* refund_job calls, concurrent calls on one account included.
C1_BalancesNeverNegative ==
    \A a \in Accounts : users[a].balance >= 0 /\ users[a].promo_gen >= 0

\* a debit and a refund are in flight on one account that was already charged
C1_Witness ==
    \E a \in Accounts, p \in Procs, q \in Procs :
        /\ pc[p] = "debit_write" /\ tx[p].v_user_id = a
        /\ pc[q] = "refund_write" /\ tx[q].v_user_id = a
        /\ users[a] # initUsers[a]

\* C2: for every job id at most one refund transaction exists in every
\* reachable state, for any number and interleaving of refund_job calls.
C2_AtMostOneRefund ==
    \A j \in 1..Len(jobs) : RefundCount(j) <= 1

\* two refund_job calls on one job have both returned a row
C2_Witness ==
    \E j \in 1..Len(jobs) :
        /\ RefundOk(last["c1"], j)
        /\ RefundOk(last["c2"], j)
        /\ RefundCount(j) = 1

\* C3: a refund_job call that returns right after another refund_job call on
\* the same failed job (no ledger write in between) returns the same balance
\* and promo_gen, changes no users, jobs or transactions row, and leaves
\* exactly one refund transaction for the job.
C3_RefundIdempotent ==
    [][\A c \in Clients, d \in Clients :
          LET j == tx[c].p_job_id IN
          ( /\ tx[c].fn = "refund_job"
            /\ pc[c] \in {"refund_select", "refund_exists", "refund_write"}
            /\ pc'[c] = "idle"
            /\ last'[c].error = ""
            /\ RefundOk(last[d], j)
            /\ last[d].txlen = Len(transactions) )
          => ( /\ last'[c].balance = last[d].balance
               /\ last'[c].promo_gen = last[d].promo_gen
               /\ UNCHANGED ledger
               /\ RefundCount(j) = 1 )]_vars

\* both calls on the job returned a row, with no ledger write in between
C3_Witness ==
    \E j \in 1..Len(jobs) :
        /\ RefundOk(last["c1"], j)
        /\ RefundOk(last["c2"], j)
        /\ last["c1"].txlen = Len(transactions)
        /\ last["c2"].txlen = Len(transactions)
        /\ last["c1"].balance = last["c2"].balance
        /\ jobs[j].cost > 0

\* a process leaves the first step of create_job_and_debit
DebitDecided(p) ==
    /\ tx[p].fn = "create_job_and_debit"
    /\ pc[p] = "debit_select"
    /\ pc'[p] # "debit_select"

\* C11: a create_job_and_debit call with p_base_cost <= 0 or p_counter <= 0
\* raises invalid_cost or invalid_counter and changes no users, jobs or
\* transactions row.
C11_InvalidDebitRejected ==
    [][\A c \in Clients :
          (DebitDecided(c) /\ (tx[c].p_base_cost <= 0 \/ tx[c].p_counter <= 0))
          => ( /\ last'[c].fn = "create_job_and_debit"
               /\ last'[c].error = IF tx[c].p_base_cost <= 0 THEN "invalid_cost"
                                                              ELSE "invalid_counter"
               /\ last'[c].job_id = 0
               /\ UNCHANGED ledger )]_vars

\* both rejections have happened next to a ledger that holds a job
C11_Witness ==
    /\ last["c1"].error = "invalid_cost"
    /\ last["c2"].error = "invalid_counter"
    /\ Len(jobs) > 0

\* what the first n transactions record for account a: cash, promo credits
RECURSIVE CashRecorded(_, _)
CashRecorded(a, n) ==
    IF n = 0 THEN 0
    ELSE CashRecorded(a, n - 1)
         + (IF transactions[n].user_id = a THEN transactions[n].amount ELSE 0)

RECURSIVE PromoRecorded(_, _)
PromoRecorded(a, n) ==
    IF n = 0 THEN 0
    ELSE PromoRecorded(a, n - 1)
         + (IF transactions[n].user_id # a THEN 0
            ELSE IF transactions[n].type = "debit"
                 THEN 0 - transactions[n].promo_used
                 ELSE jobs[transactions[n].job_id].promo_gen_used)

\* C16: create_job_and_debit is all-or-nothing: in every reachable state each
\* account's balance and promo_gen are their initial values plus what the
\* transactions of that account record, every debit transaction has its job
\* row with cost = -amount, and every job row has exactly one debit
\* transaction; no balance is ever lowered without both rows.
C16_DebitAllOrNothing ==
    /\ \A a \in Accounts :
          /\ users[a].balance =
                initUsers[a].balance + CashRecorded(a, Len(transactions))
          /\ users[a].promo_gen =
                initUsers[a].promo_gen + PromoRecorded(a, Len(transactions))
    /\ \A i \in 1..Len(transactions) :
          transactions[i].type = "debit"
          => /\ transactions[i].job_id \in 1..Len(jobs)
             /\ jobs[transactions[i].job_id].cost = 0 - transactions[i].amount
             /\ jobs[transactions[i].job_id].user_id = transactions[i].user_id
    /\ \A j \in 1..Len(jobs) : DebitCount(j) = 1

\* a call whose insert was refused has returned, on an account that another
\* call has charged
C16_Witness ==
    \E c \in Clients :
        /\ last[c].error = "check_violation"
        /\ users["u1"].balance < initUsers["u1"].balance
        /\ Len(jobs) > 0

\* C17: a refund_job call on a job whose status is not failed raises
\* job_not_failed, inserts no transaction and changes no balance.
C17_RefundNeedsFailedJob ==
    [][\A c \in Clients :
          LET j == tx[c].p_job_id
          IN ( /\ tx[c].fn = "refund_job"
               /\ pc[c] = "refund_select" /\ pc'[c] # "refund_select"
               /\ j \in 1..Len(jobs)
               /\ jobs[j].status # "failed" )
             => ( /\ pc'[c] = "idle"
                  /\ last'[c].fn = "refund_job"
                  /\ last'[c].error = "job_not_failed"
                  /\ UNCHANGED ledger )]_vars

\* a refund was refused for a charged job that is still processing
C17_Witness ==
    \E c \in Clients, j \in 1..Len(jobs) :
        /\ last[c] = Raised("refund_job", j, "job_not_failed")
        /\ jobs[j].status = "processing"
        /\ jobs[j].cost > 0
        /\ RefundCount(j) = 0

\* the debit transaction of job j
DebitOf(j) == CHOOSE i \in TxOfJob(j, "debit") : TRUE

\* C27: cost and promo_gen_used of a job never change after its creation,
\* whatever settlement and refund_job do, and a refund credits exactly what
\* the debit transaction of the job took: its cash and its promo credits.
C27_CostFixedRefundExact ==
    [][ /\ \A j \in 1..Len(jobs) :
             /\ jobs'[j].cost = jobs[j].cost
             /\ jobs'[j].promo_gen_used = jobs[j].promo_gen_used
        /\ \A c \in Clients :
             (pc[c] = "refund_write" /\ pc'[c] # "refund_write")
             => LET j == tx[c].p_job_id
                    u == jobs[j].user_id
                    d == transactions[DebitOf(j)]
                    n == Len(transactions) + 1
                IN /\ users'[u].balance - users[u].balance = 0 - d.amount
                   /\ users'[u].promo_gen - users[u].promo_gen = d.promo_used
                   /\ Len(transactions') = n
                   /\ transactions'[n].type = "refund"
                   /\ transactions'[n].job_id = j
                   /\ transactions'[n].amount = 0 - d.amount ]_vars

\* a settled job that cost cash has been refunded
C27_Witness ==
    \E j \in 1..Len(jobs) :
        /\ jobs[j].status = "failed"
        /\ jobs[j].cost > 0
        /\ RefundCount(j) = 1
        /\ jobs[j].finished

\* C28: in every reachable state every job row has exactly one debit
\* transaction, of amount minus the job's cost and of the job's owner, and
\* every debit transaction belongs to a job row.
C28_JobHasOneDebit ==
    /\ \A j \in 1..Len(jobs) :
          /\ DebitCount(j) = 1
          /\ transactions[DebitOf(j)].amount = 0 - jobs[j].cost
          /\ transactions[DebitOf(j)].user_id = jobs[j].user_id
    /\ \A i \in 1..Len(transactions) :
          transactions[i].type = "debit" => transactions[i].job_id \in 1..Len(jobs)

\* two jobs of two accounts, one of them charged in cash and refunded
C28_Witness ==
    \E j \in 1..Len(jobs), k \in 1..Len(jobs) :
        /\ jobs[j].user_id # jobs[k].user_id
        /\ jobs[j].cost > 0
        /\ RefundCount(j) = 1

\* freeUnitsUsed = max(min(promoCredits, unitCount), 0)
ExpectedFreeUnits(promo, count) ==
    LET m == IF promo < count THEN promo ELSE count
    IN IF m > 0 THEN m ELSE 0

\* charge = max(unitCost * unitCount - freeUnitsUsed * unitCost, 0)
ExpectedCharge(cost, count, promo) ==
    LET c == cost * count - ExpectedFreeUnits(promo, count) * cost
    IN IF c > 0 THEN c ELSE 0

\* C12: a create_job_and_debit call with valid arguments for an existing
\* account raises insufficient_balance exactly when the balance is less than
\* the charge left after promo credits; the failing call writes nothing.
C12_InsufficientBalanceExact ==
    [][\A c \in Clients :
          LET a == tx[c]
              u == a.p_telegram_id
              raised == pc'[c] = "idle" /\ last'[c].error = "insufficient_balance"
          IN (DebitDecided(c) /\ a.p_base_cost > 0 /\ a.p_counter > 0 /\ u \in Accounts)
             => ( /\ raised <=> users[u].balance <
                                  ExpectedCharge(a.p_base_cost, a.p_counter,
                                                 users[u].promo_gen)
                  /\ raised => (UNCHANGED ledger /\ last'[c].job_id = 0)
                  /\ ~raised => pc'[c] = "debit_write" )]_vars

\* a call was refused for an account that holds cash, only not enough of it,
\* and nothing was written
C12_Witness ==
    \E c \in Clients, u \in Accounts :
        /\ last[c].fn = "create_job_and_debit"
        /\ last[c].error = "insufficient_balance"
        /\ users[u].balance = 30
        /\ users[u].promo_gen = 1
        /\ calls = 1
        /\ jobs = <<>> /\ transactions = <<>> /\ users = initUsers

\* C14: for every account row and every unitCost > 0, unitCount > 0 a call
\* that goes through uses max(min(promo_gen, count), 0) free units and charges
\* max(cost * count - free * cost, 0); balance 100, promo_gen 2, cost 30,
\* count 2 gives 2 free units, charge 0, a job of cost 0 and balances 100 / 0.
C14_ChargeFormula ==
    [][\A c \in Clients :
          LET a == tx[c]
              u == a.v_user_id
              id == Len(jobs) + 1
          IN (pc[c] = "debit_write" /\ pc'[c] # "debit_write")
             => ( /\ a.p_base_cost > 0 /\ a.p_counter > 0
                  /\ jobs'[id].promo_gen_used =
                        ExpectedFreeUnits(users[u].promo_gen, a.p_counter)
                  /\ jobs'[id].cost =
                        ExpectedCharge(a.p_base_cost, a.p_counter, users[u].promo_gen)
                  /\ last'[c].charged_cost = jobs'[id].cost
                  /\ ( /\ users[u] = [balance |-> 100, promo_gen |-> 2]
                       /\ a.p_base_cost = 30 /\ a.p_counter = 2 )
                     => ( /\ jobs'[id].promo_gen_used = 2
                          /\ jobs'[id].cost = 0
                          /\ last'[c].charged_cost = 0
                          /\ users'[u] = [balance |-> 100, promo_gen |-> 0] ) )]_vars

\* the scenario's call has computed its free units and its charge
C14_Witness ==
    \E c \in Clients, u \in Accounts :
        /\ pc[c] = "debit_write"
        /\ users[u] = [balance |-> 100, promo_gen |-> 2]
        /\ tx[c].v_user_id = u
        /\ tx[c].p_base_cost = 30 /\ tx[c].p_counter = 2
        /\ tx[c].v_free_used = 2 /\ tx[c].v_charge_cost = 0

\* C15: a create_job_and_debit call that goes through lowers the balance by
\* the charge and promo_gen by the free units, inserts one job row (processing,
\* cost = charge, promo_gen_used = free units) and one debit transaction of
\* amount -charge for it, and returns the job id, the new balances and the
\* charge; no other row changes.
C15_DebitEffect ==
    [][\A c \in Clients :
          LET a == tx[c]
              u == a.v_user_id
              id == Len(jobs) + 1
              n == Len(transactions) + 1
              free == ExpectedFreeUnits(users[u].promo_gen, a.p_counter)
              charge == ExpectedCharge(a.p_base_cost, a.p_counter, users[u].promo_gen)
          IN (pc[c] = "debit_write" /\ pc'[c] # "debit_write")
             => ( /\ users'[u].balance = users[u].balance - charge
                  /\ users'[u].promo_gen = users[u].promo_gen - free
                  /\ \A v \in Accounts \ {u} : users'[v] = users[v]
                  /\ Len(jobs') = id /\ SubSeq(jobs', 1, Len(jobs)) = jobs
                  /\ jobs'[id].user_id = u
                  /\ jobs'[id].status = "processing"
                  /\ jobs'[id].cost = charge
                  /\ jobs'[id].promo_gen_used = free
                  /\ Len(transactions') = n
                  /\ SubSeq(transactions', 1, Len(transactions)) = transactions
                  /\ transactions'[n].type = "debit"
                  /\ transactions'[n].job_id = id
                  /\ transactions'[n].user_id = u
                  /\ transactions'[n].amount = 0 - charge
                  /\ last'[c].error = ""
                  /\ last'[c].job_id = id
                  /\ last'[c].balance = users'[u].balance
                  /\ last'[c].promo_gen = users'[u].promo_gen
                  /\ last'[c].charged_cost = charge )]_vars

\* a call that used one free unit and charged cash for the other two
C15_Witness ==
    \E c \in Clients, u \in Accounts :
        /\ initUsers[u] = [balance |-> 100, promo_gen |-> 1]
        /\ users[u] = [balance |-> 40, promo_gen |-> 0]
        /\ last[c].job_id = 1 /\ last[c].charged_cost = 60 /\ last[c].balance = 40
        /\ jobs[1].cost = 60 /\ jobs[1].promo_gen_used = 1
        /\ transactions[1].amount = 0 - 60

(***************************************************************************)
(* Properties of the POST /generate saga.                                  *)
(***************************************************************************)
IsPrefix(a, b) == Len(a) <= Len(b) /\ SubSeq(b, 1, Len(a)) = a

Occurrences(seq, e) == Cardinality({i \in 1..Len(seq) : seq[i] = e})

JobsOf(a) == {j \in 1..Len(jobs) : jobs[j].user_id = a}

\* the handler has replied for a job it created
Replied(p) == pc[p] = "done" /\ h[p].jobId # 0

C6_SucceededHasOutput ==
    \A j \in 1..Len(jobs) :
        jobs[j].status = "succeeded"
        => jobs[j].output_url # "" /\ RefundCount(j) = 0

\* C7: a job whose debit succeeded never stays in processing: when its
\* handler has run to its end the job is succeeded or failed.
C7_DebitedJobSettles ==
    \A p \in Sagas :
        Replied(p) => jobs[h[p].jobId].status \in {"succeeded", "failed"}

\* C8: the executor is invoked at most once per job, never for a job whose
\* staging failed, and a job whose call failed is settled to failed.
C8_InvokedOnceThenFailed ==
    /\ \A j \in JobIds : Occurrences(events[j], "invoke") <= 1
    /\ \A p \in Sagas :
          /\ (h[p].jobId # 0 /\ h[p].resp.code = "signed_url_failed")
             => Occurrences(events[h[p].jobId], "invoke") = 0
          /\ (Replied(p) /\ h[p].staged /\ ~h[p].resp.ok)
             => jobs[h[p].jobId].status = "failed"

\* C9: within one job the debit commits before the executor is invoked, the
\* invocation returns before the settlement write, and the write precedes the
\* refund_job call; nothing happens to a job without its debit.
C9_DebitExecuteSettleOrder ==
    \A j \in JobIds :
        /\ \/ IsPrefix(events[j], <<"debit", "invoke", "return", "settle", "refund_call">>)
           \/ IsPrefix(events[j], <<"debit", "settle", "refund_call">>)
        /\ events[j] # <<>> => (j <= Len(jobs) /\ DebitCount(j) = 1)
        /\ (j <= Len(jobs) /\ jobs[j].status # "processing")
           => /\ Occurrences(events[j], "settle") = 1
              /\ Occurrences(events[j], "invoke") = Occurrences(events[j], "return")

\* a job went through every step of the failure path
C9_Witness ==
    \E j \in 1..Len(jobs) :
        /\ events[j] = <<"debit", "invoke", "return", "settle", "refund_call">>
        /\ jobs[j].status = "failed"

\* C13: when create_job_and_debit fails, whatever the reason, the handler
\* replies with an error in that step and is finished; the failed call leaves
\* no job row, the executor is never invoked and refund_job is never called:
\* whatever happens to a job happens in a request whose debit went through.
C13_DebitFailureEndsSaga ==
    [][ /\ \A p \in Sagas :
             (DebitDecided(p) /\ pc'[p] # "debit_write")
             => ( /\ pc'[p] = "done"
                  /\ reply'[p].status = 400
                  /\ reply'[p].error = "debit_failed"
                  /\ reply'[p].job = 0
                  /\ h'[p].jobId = 0
                  /\ UNCHANGED <<ledger, events>> )
        /\ \A p \in Sagas :
             reply[p].error = "debit_failed"
             => ( /\ pc'[p] = pc[p] /\ h'[p] = h[p]
                  /\ reply'[p] = reply[p] /\ tx'[p] = tx[p] )
        /\ \A j \in JobIds :
             events'[j] # events[j]
             => \E p \in Sagas : h'[p].jobId = j /\ reply'[p].error # "debit_failed"
        /\ Len(jobs') = Cardinality({p \in Sagas : h'[p].jobId # 0}) ]_vars

\* one request was refused for a missing account, another for its balance,
\* and the tables are still empty
C13_Witness ==
    \E p \in Sagas, q \in Sagas :
        /\ reply[p].error = "debit_failed" /\ h[p].telegram_id = "u0"
        /\ reply[q].error = "debit_failed" /\ h[q].telegram_id \in Accounts
        /\ users[h[q].telegram_id].balance < h[q].baseCost * h[q].counter
        /\ jobs = <<>> /\ transactions = <<>>

\* C18: when signing an input fails after the debit, the job is written failed
\* with its error and finished_at, refund_job is called before the reply, the
\* executor is not invoked, and once the handler has replied the account, if
\* it has no other job, is back at its balances from before the debit.
C18_StagingFailureRefunded ==
    \A p \in Sagas :
        (Replied(p) /\ ~h[p].staged)
        => LET j == h[p].jobId
               a == h[p].telegram_id
           IN /\ jobs[j].status = "failed"
              /\ jobs[j].error = "signed_url_failed"
              /\ jobs[j].finished
              /\ Occurrences(events[j], "refund_call") = 1
              /\ Occurrences(events[j], "invoke") = 0
              /\ JobsOf(a) = {j} => users[a] = initUsers[a]

\* C19: the balances in the reply to an executor failure are those of the
\* users row right after refund_job for the job: a refund transaction exists
\* and, the job being the account's only one, the reply shows the row as it
\* is, not the balances returned by the debit.
C19_FailureReplyPostRefund ==
    \A p \in Sagas :
        (Replied(p) /\ h[p].staged /\ ~h[p].resp.ok)
        => LET j == h[p].jobId
               a == h[p].telegram_id
           IN /\ reply[p].hasUser
              /\ RefundCount(j) = 1
              /\ JobsOf(a) = {j}
                 => /\ reply[p].balance = users[a].balance
                    /\ reply[p].promo_gen = users[a].promo_gen
                    /\ reply[p].balance = h[p].balance + jobs[j].cost
                    /\ reply[p].promo_gen = h[p].promoGen + jobs[j].promo_gen_used

\* C20: a settlement write the store rejects is not swallowed: the success
\* reply (200) is given only for a job row that is succeeded and the
\* failure reply (500) only for a job row that is failed.
C20_SettlementWriteNotSwallowed ==
    \A p \in Sagas :
        Replied(p)
        => /\ reply[p].status = 200 => jobs[h[p].jobId].status = "succeeded"
           /\ reply[p].status = 500 => jobs[h[p].jobId].status = "failed"

\* C21: a caller that disconnects after the debit does not stop the saga:
\* the executor call, if staging got that far, is made and awaited, the job
\* ends succeeded or failed, and on failure refund_job is called.
C21_DisconnectDoesNotStopSaga ==
    \A p \in Sagas :
        (Replied(p) /\ ~h[p].connected)
        => LET j == h[p].jobId
           IN /\ h[p].staged
                 => /\ Occurrences(events[j], "invoke") = 1
                    /\ Occurrences(events[j], "return") = 1
              /\ jobs[j].status \in {"succeeded", "failed"}
              /\ jobs[j].status = "failed"
                 => Occurrences(events[j], "refund_call") = 1

\* C26: a job's status changes only from processing to succeeded or to
\* failed, so at most once and never back, and the saga writes it exactly
\* once: when the handler has replied the job's status has been written.
C26_StatusWrittenOnce ==
    [][ /\ \A j \in 1..Len(jobs) :
             jobs'[j].status # jobs[j].status
             => /\ jobs[j].status = "processing"
                /\ jobs'[j].status \in {"succeeded", "failed"}
        /\ \A p \in Sagas :
             (pc'[p] = "done" /\ h'[p].jobId # 0)
             => /\ Occurrences(events'[h'[p].jobId], "settle") = 1
                /\ jobs'[h'[p].jobId].status # "processing" ]_vars

\* C29: on executor success the reply carries the balance and promo_gen the
\* debit of this job returned (the users row right after the job's debit
\* transaction), the job row is succeeded with the executor's output_url and
\* finished_at, and refund_job is not called.
C29_SuccessSettlement ==
    \A p \in Sagas :
        (Replied(p) /\ h[p].staged /\ h[p].resp.ok)
        => LET j == h[p].jobId
               a == h[p].telegram_id
           IN /\ reply[p].status = 200
              /\ reply[p].hasUser
              /\ reply[p].balance = initUsers[a].balance + CashRecorded(a, DebitOf(j))
              /\ reply[p].promo_gen =
                    initUsers[a].promo_gen + PromoRecorded(a, DebitOf(j))
              /\ jobs[j].status = "succeeded"
              /\ jobs[j].output_url = h[p].outcome.output_url
              /\ jobs[j].finished
              /\ Occurrences(events[j], "refund_call") = 0

\* C30: after a post-debit error (staging or executor failure) the job is
\* failed and refund_job has been called when the handler replies; the reply
\* is the failure reply whether or not the refund went through.
C30_PostDebitErrorSettled ==
    \A p \in Sagas :
        (Replied(p) /\ ~(h[p].staged /\ h[p].resp.ok))
        => LET j == h[p].jobId
           IN /\ jobs[j].status = "failed"
              /\ Occurrences(events[j], "refund_call") = 1
              /\ reply[p].status = 500
              /\ reply[p].jobStatus = "failed"
              /\ reply[p].error = h[p].resp.code

(***************************************************************************)
(* Properties of the executor adapter.                                     *)
(***************************************************************************)
\* the webhook call of request p has returned
Returned(p) == h[p].staged /\ pc[p] # "executing"

\* C22 as stated: a timeout and a transport failure give a failure result with
\* code timeout and transport_error respectively.
C22_TimeoutAndTransportCodes ==
    \A p \in Sagas :
        (Returned(p) /\ h[p].outcome.transport # "ok")
        => /\ ~h[p].resp.ok
           /\ h[p].outcome.transport = "aborted" => h[p].resp.code = "timeout"
           /\ h[p].outcome.transport = "failed" => h[p].resp.code = "transport_error"

\* C22 amended: when the timer aborts the request or the transport fails, the
\* call returns a failure result, never a success, whose code is
\* n8n_fetch_error for both causes and whose message is that of the error.
C22_FetchErrorOnAbortOrTransport ==
    \A p \in Sagas :
        (Returned(p) /\ h[p].outcome.transport # "ok")
        => /\ ~h[p].resp.ok
           /\ h[p].resp.code = "n8n_fetch_error"
           /\ h[p].resp.message = h[p].outcome.message
           /\ h[p].resp.output_url = ""

\* a request whose webhook call was aborted by the timer has been answered
C22_Witness ==
    \E p \in Sagas :
        /\ pc[p] = "done"
        /\ h[p].outcome.transport = "aborted"
        /\ reply[p].status = 500
        /\ reply[p].error = "n8n_fetch_error"

\* C23 as stated: every response with a non-success HTTP status gives a
\* failure result with code http_error.
C23_HttpErrorCode ==
    \A p \in Sagas :
        (Returned(p) /\ h[p].outcome.transport = "ok" /\ ~h[p].outcome.http_ok)
        => (~h[p].resp.ok /\ h[p].resp.code = "http_error")

\* C23 amended: every response with a non-success HTTP status gives a failure
\* result with code n8n_http_error, whatever its body is.
C23_N8nHttpErrorCode ==
    \A p \in Sagas :
        (Returned(p) /\ h[p].outcome.transport = "ok" /\ ~h[p].outcome.http_ok)
        => /\ ~h[p].resp.ok
           /\ h[p].resp.code = "n8n_http_error"
           /\ h[p].resp.output_url = ""

\* an error status came with a body that reads as a success
C23_Witness ==
    \E p \in Sagas :
        /\ pc[p] = "done"
        /\ ~h[p].outcome.http_ok
        /\ h[p].outcome.json /\ h[p].outcome.okField = "true"
        /\ h[p].outcome.output_url # ""
        /\ reply[p].error = "n8n_http_error"

\* C24 as stated: a JSON body of a successful response that has no boolean ok
\* gives a failure result with code invalid_response.
C24_InvalidResponseCode ==
    \A p \in Sagas :
        ( /\ Returned(p)
          /\ h[p].outcome.transport = "ok" /\ h[p].outcome.http_ok /\ h[p].outcome.json
          /\ h[p].outcome.okField \notin {"true", "false"} )
        => (~h[p].resp.ok /\ h[p].resp.code = "invalid_response")

\* C24 amended: a JSON body of a successful response that has no boolean ok
\* gives a failure result with code n8n_invalid_response and is never
\* treated as a success: its job is not written succeeded.
C24_N8nInvalidResponseCode ==
    \A p \in Sagas :
        ( /\ Returned(p)
          /\ h[p].outcome.transport = "ok" /\ h[p].outcome.http_ok /\ h[p].outcome.json
          /\ h[p].outcome.okField \notin {"true", "false"} )
        => /\ ~h[p].resp.ok
           /\ h[p].resp.code = "n8n_invalid_response"
           /\ jobs[h[p].jobId].status # "succeeded"
           /\ reply[p].status # 200

\* a body with an output_url and an ok that is not a boolean
C24_Witness ==
    \E p \in Sagas :
        /\ pc[p] = "done"
        /\ h[p].outcome.transport = "ok" /\ h[p].outcome.http_ok /\ h[p].outcome.json
        /\ h[p].outcome.okField = "other"
        /\ h[p].outcome.output_url # ""
        /\ reply[p].error = "n8n_invalid_response"

\* a response {ok: false, error: {code, message}}
WellFormedFailure(o) ==
    /\ o.transport = "ok" /\ o.http_ok /\ o.json
    /\ o.okField = "false" /\ o.code # ""

\* C25: for a well-formed failure response the adapter's result, the error
\* and message of the reply, and the error written to the job row are the
\* code and message the executor sent.
C25_FailurePassesThrough ==
    \A p \in Sagas :
        (Returned(p) /\ WellFormedFailure(h[p].outcome))
        => LET o == h[p].outcome
               j == h[p].jobId
           IN /\ ~h[p].resp.ok
              /\ h[p].resp.code = o.code /\ h[p].resp.message = o.message
              /\ pc[p] = "done"
                 => /\ reply[p].status = 500
                    /\ reply[p].error = o.code
                    /\ reply[p].message = o.message
              /\ jobs[j].status = "failed"
                 => /\ jobs[j].error = o.code
                    /\ jobs[j].error_message = o.message

\* the executor's own failure, under a code the adapter also uses, has been
\* written to the job and sent to the caller
C25_Witness ==
    \E p \in Sagas :
        /\ pc[p] = "done"
        /\ WellFormedFailure(h[p].outcome)
        /\ h[p].outcome.message = "quota exceeded"
        /\ jobs[h[p].jobId].status = "failed"
        /\ jobs[h[p].jobId].error_message = "quota exceeded"
        /\ reply[p].message = "quota exceeded"

\* what the admission checks are to reject
C10_Rejectable(b) ==
    \/ b.model = "" \/ b.prompt = ""
    \/ (b.counter # <<>> /\ (Len(b.counter) # 1 \/ b.counter[1] \notin 1..6))
    \/ b.model \notin ModelIds
    \/ ~ParamsAccepted(b.model, b.params)
    \/ LET rule == ModelInputs(b.model)
       IN IF rule = NoRule THEN Len(b.inputs) > 0
          ELSE \/ Len(b.inputs) < rule.min
               \/ Len(b.inputs) > rule.max
               \/ \E i \in 1..Len(b.inputs) : b.inputs[i] # rule.kind
    \/ BaseCost(b) * UnitCount(b) <= 0

\* C10: a request rejected at admission ends with a 400 reply in the step
\* that examines it: no balance changes, no job and no transaction is
\* created, no procedure is called and the executor is not invoked.
C10_RejectedLeavesNoTrace ==
    [][\A p \in Sagas :
          (pc[p] = "start" /\ pc'[p] # "start" /\ C10_Rejectable(h'[p].body))
          => /\ pc'[p] = "done"
             /\ reply'[p].status = 400
             /\ h'[p].jobId = 0
             /\ tx'[p] = NoTx
             /\ UNCHANGED <<users, jobs, transactions, events>>]_vars

\* a request with an input of the wrong kind was answered 400, next to a
\* request that was charged
C10_Witness ==
    \E p \in Sagas, q \in Sagas :
        /\ pc[p] = "done"
        /\ reply[p].status = 400
        /\ reply[p].error = "invalid_inputs"
        /\ h[p].body.model = "wan/2-6-video-to-video"
        /\ h[q].jobId # 0

(***************************************************************************)
(* Properties of admission and pricing.                                    *)
(***************************************************************************)
\* a counter the body may not carry: outside 1..6, or not an integer
BadCounter(b) == b.counter # <<>> /\ (Len(b.counter) # 1 \/ b.counter[1] \notin 1..6)

\* the unit count the request is to be billed and executed with
ExpectedUnits(b) ==
    IF b.model \in {"nano-banana-pro", "google/nano-banana"} /\ b.counter # <<>>
    THEN b.counter[1]
    ELSE 1

\* C31: the unit count handed to create_job_and_debit and to the executor is 1
\* for every video model whatever counter was sent, and for image models the
\* requested counter (an integer in 1..6) or 1 when absent; a request whose
\* counter is outside 1..6 or not an integer is answered 400 with no procedure
\* called and no row changed.
C31_UnitCount ==
    [][\A p \in Sagas :
          /\ (pc[p] = "start" /\ pc'[p] = "debit_select")
             => /\ ~BadCounter(h'[p].body)
                /\ tx'[p].p_counter = ExpectedUnits(h'[p].body)
          /\ (pc[p] = "stage" /\ pc'[p] = "executing")
             => h'[p].n8nPayload.counter = ExpectedUnits(h[p].body)
          /\ (pc[p] = "start" /\ pc'[p] # "start" /\ BadCounter(h'[p].body))
             => /\ pc'[p] = "done"
                /\ reply'[p].status = 400
                /\ tx'[p] = NoTx
                /\ UNCHANGED <<users, jobs, transactions>>]_vars

\* a video request that asked for 3 units was sent to the executor with 1,
\* next to an image request that was debited for the 2 units it asked for
C31_Witness ==
    \E p \in Sagas, q \in Sagas :
        /\ h[p].body.model = "bytedance/seedance-1.5-pro"
        /\ h[p].body.counter = <<3>>
        /\ h[p].staged
        /\ h[p].n8nPayload.counter = 1
        /\ h[q].body.counter = <<2>>
        /\ h[q].jobId # 0
        /\ h[q].counter = 2

\* the handler has applied validateInputCount to its body
InputsChecked(p) == pc[p] \in {"validated", "done"}

\* C32: validateInputCount returns ok exactly when the model declares no input
\* rule and the list is empty, or the model declares a rule {kind, min, max},
\* min <= number of inputs <= max and every input has the rule's kind; every
\* other result carries a message, and a model without a rule rejects every
\* non-empty list.
C32_InputCountRule ==
    \A p \in InputsSagas :
        InputsChecked(p) =>
            LET m == h[p].body.model
                inputs == h[p].body.inputs
                n == Len(h[p].body.inputs)
                r == h[p].inputValidation
                declared == m \in {"nano-banana-pro", "bytedance/seedance-1.5-pro",
                                   "wan/2-6-image-to-video", "wan/2-6-video-to-video",
                                   "sora-2-pro-image-to-video"}
            IN /\ r.ok <=> \/ ~declared /\ n = 0
                           \/ /\ declared
                              /\ ModelInputs(m).min <= n
                              /\ n <= ModelInputs(m).max
                              /\ \A i \in 1..n : inputs[i] = ModelInputs(m).kind
               /\ ~r.ok => r.message # <<>> /\ reply[p].status = 400
               /\ (~declared /\ n > 0) => ~r.ok

\* a model whose rule asks for 1 to 3 videos refused a list of three inputs
\* holding one image
C32_Witness ==
    \E p \in InputsSagas :
        /\ InputsChecked(p)
        /\ h[p].body.model = "wan/2-6-video-to-video"
        /\ h[p].body.inputs = <<"video", "image", "video">>
        /\ h[p].inputValidation = [ok |-> FALSE, message |-> <<"wrong kind", "image">>]

\* a process commits create_job_and_debit, inserting a job row
DebitCommitted(p) ==
    /\ pc[p] = "debit_write"
    /\ pc'[p] # "debit_write"
    /\ Len(jobs') = Len(jobs) + 1

\* C33: a unit price of 0 never produces a job: the handler calls
\* create_job_and_debit only with the positive price of the catalog and
\* answers 400 invalid_cost otherwise, a call made with a price of 0 raises
\* invalid_cost and changes no row, and a job whose cost is 0 was priced above 0
\* with promo credits covering every unit.
C33_ZeroPriceIsNotFree ==
    [][/\ \A p \in Sagas :
            (pc[p] = "start" /\ pc'[p] # "start")
            => IF BaseCost(h'[p].body) <= 0 /\ Admission(h'[p].body) \notin
                                                {"invalid_body", "unknown_model",
                                                 "invalid_params", "invalid_inputs"}
               THEN /\ reply'[p].status = 400
                    /\ reply'[p].error = "invalid_cost"
                    /\ tx'[p] = NoTx
                    /\ UNCHANGED ledger
               ELSE pc'[p] = "debit_select" => tx'[p].p_base_cost > 0
       /\ \A p \in Procs :
            (DebitDecided(p) /\ tx[p].p_base_cost = 0)
            => /\ UNCHANGED ledger
               /\ pc'[p] # "debit_write"
               /\ p \in Clients => last'[p].error = "invalid_cost"
       /\ \A p \in Procs :
            DebitCommitted(p)
            => /\ tx[p].p_base_cost > 0
               /\ jobs'[Len(jobs')].cost = 0
                  => /\ jobs'[Len(jobs')].promo_gen_used = tx[p].p_counter
                     /\ users[tx[p].v_user_id].promo_gen >= tx[p].p_counter]_vars

\* a call priced 0 was refused with invalid_cost while the only job of the
\* table, whose cost is 0, was paid for with a promo credit
C33_Witness ==
    /\ \E c \in Clients : last[c].error = "invalid_cost"
    /\ Len(jobs) = 1
    /\ jobs[1].cost = 0
    /\ jobs[1].promo_gen_used = 1

(***************************************************************************)
(* Frame of the orchestrator.                                              *)
(***************************************************************************)
\* the positions inside create_job_and_debit and refund_job
ProcedurePositions ==
    {"debit_select", "debit_write", "refund_select", "refund_exists", "refund_write"}

\* the step is one of a stored procedure
ProcedureStep == \E p \in Procs : pc[p] \in ProcedurePositions /\ pc'[p] # pc[p]

\* C34: the orchestrator never writes an account's balance or promo credits
\* and never writes a transaction: every step that is not a step of
\* create_job_and_debit or refund_job leaves all users and transactions rows
\* unchanged, and changes at most the status, output_url, error and
\* finished_at of the one job the handler is settling.
C34_OrchestratorFrame ==
    [][~ProcedureStep
       => /\ UNCHANGED <<users, transactions>>
          /\ Len(jobs') = Len(jobs)
          /\ \A j \in 1..Len(jobs) :
               jobs'[j] # jobs[j]
               => /\ \E p \in Sagas : pc[p] = "settle" /\ pc'[p] # "settle"
                                      /\ h[p].jobId = j
                  /\ jobs'[j] = [jobs[j] EXCEPT !.status = jobs'[j].status,
                                                !.output_url = jobs'[j].output_url,
                                                !.error = jobs'[j].error,
                                                !.error_message = jobs'[j].error_message,
                                                !.finished = jobs'[j].finished]]_vars

\* one job was settled as failed and one as succeeded, both charged, and
\* the only transactions are their two debits
C34_Witness ==
    \E p \in Sagas, q \in Sagas :
        /\ pc[p] = "done" /\ pc[q] = "done"
        /\ h[p].jobId # 0 /\ h[q].jobId # 0
        /\ jobs[h[p].jobId].status = "failed"
        /\ jobs[h[q].jobId].status = "succeeded"
        /\ Len(transactions) = 2
        /\ \A a \in Accounts :
             users[a].balance = initUsers[a].balance + CashRecorded(a, Len(transactions))

(***************************************************************************)
(* Properties of the price.                                                *)
(***************************************************************************)
\* the handler's create_job_and_debit call has returned a job
Charged(p) == h[p].jobId # 0

\* C35: the amount charged is a function of the validated model parameters,
\* the unit count and the account's ledger state only: two requests that agree
\* on model, validated parameters and counter, made on accounts in the same
\* state, are charged the same amount and the same promo credits whatever
\* else they carry, a price sent by the client included.
C35_ChargeIgnoresClientPrice ==
    \A p \in Sagas, q \in Sagas :
        LET a == h[p].telegram_id
            b == h[q].telegram_id
        IN ( /\ Charged(p) /\ Charged(q)
             /\ a # b
             /\ initUsers[a] = initUsers[b]
             /\ h[p].body.model = h[q].body.model
             /\ ParsedParams(h[p].body.model, h[p].body.params)
                  = ParsedParams(h[q].body.model, h[q].body.params)
             /\ h[p].body.counter = h[q].body.counter )
           => /\ jobs[h[p].jobId].cost = jobs[h[q].jobId].cost
              /\ jobs[h[p].jobId].promo_gen_used = jobs[h[q].jobId].promo_gen_used
              /\ h[p].chargedCost = h[q].chargedCost
              /\ \A i \in TxOfJob(h[p].jobId, "debit"), k \in TxOfJob(h[q].jobId, "debit") :
                   transactions[i].amount = transactions[k].amount
              /\ users[a] = users[b]

\* two accounts in the same state were charged the same 10 for the same
\* video model and parameters, one request carrying a price of 5 and no
\* input, the other two inputs and no price
C35_Witness ==
    \E p \in Sagas, q \in Sagas :
        /\ Charged(p) /\ Charged(q)
        /\ h[p].telegram_id # h[q].telegram_id
        /\ initUsers[h[p].telegram_id] = initUsers[h[q].telegram_id]
        /\ h[p].body.cost = <<5>>
        /\ h[q].body.inputs = <<"image", "image">>
        /\ jobs[h[p].jobId].cost = 10
        /\ jobs[h[q].jobId].cost = 10
        /\ users[h[p].telegram_id].balance = 0

(***************************************************************************)
(* Properties of the web client's estimate.                                *)
(***************************************************************************)
\* C36: the cost the web client displays before submitting equals the charge
\* create_job_and_debit computes for the same model, params, counter, balance
\* and promo credits, for image and for video jobs, and the client enables
\* submission exactly when the debit does not fail with insufficient_balance.
C36_ClientEstimateMatchesCharge ==
    [][\A p \in ScreenSagas :
          DebitDecided(p)
          => /\ screen[p].hasEnoughBalance <=> pc'[p] = "debit_write"
             /\ pc'[p] = "debit_write"
                => tx'[p].v_charge_cost = screen[p].payableCost]_vars

\* the same, for the requests of a screen in image mode
C36_ImageEstimateMatchesCharge ==
    [][\A p \in ScreenSagas :
          (DebitDecided(p) /\ screen[p].mode = "image")
          => /\ screen[p].hasEnoughBalance <=> pc'[p] = "debit_write"
             /\ pc'[p] = "debit_write"
                => tx'[p].v_charge_cost = screen[p].payableCost]_vars

(***************************************************************************)
(* Conservation and ownership.                                             *)
(***************************************************************************)
\* the sum of the amounts of the first n transactions of account a
RECURSIVE AmountsOf(_, _)
AmountsOf(a, n) ==
    IF n = 0 THEN 0
    ELSE AmountsOf(a, n - 1)
         + (IF transactions[n].user_id = a THEN transactions[n].amount ELSE 0)

\* C37: in every reachable state every account's balance is its initial
\* balance plus the sum of the amounts of its transactions, whatever the
\* interleaving of create_job_and_debit and refund_job calls; and no update is
\* lost: every change of a balance is made on top of the balance as it stands,
\* together with one new transaction of that account for the amount of the
\* change, so the transaction log is a serial order of the calls.
C37_LedgerConservation ==
    /\ [](\A a \in Accounts :
            users[a].balance = initUsers[a].balance + AmountsOf(a, Len(transactions)))
    /\ [][\A a \in Accounts :
            \/ /\ users'[a].balance = users[a].balance
               /\ \/ transactions' = transactions
                  \/ transactions'[Len(transactions')].user_id # a
                  \/ transactions'[Len(transactions')].amount = 0
            \/ /\ Len(transactions') = Len(transactions) + 1
               /\ transactions'[Len(transactions')].user_id = a
               /\ transactions'[Len(transactions')].amount
                    = users'[a].balance - users[a].balance]_vars

\* an account was charged 10 and given the 10 back by a refund while
\* another session's debit was recorded: three transactions in all
C37_Witness ==
    \E a \in Accounts, i \in 1..Len(transactions) :
        /\ transactions[i].type = "refund"
        /\ transactions[i].user_id = a
        /\ transactions[i].amount = 10
        /\ users[a].balance = initUsers[a].balance
        /\ Len(transactions) = 3

\* a process commits refund_job's writes
RefundCommitted(p) == pc[p] = "refund_write" /\ pc'[p] # "refund_write"

\* C38: refund_job credits the account that was debited for the job: the
\* account whose balance and promo_gen it raises, and the account of the
\* refund transaction it inserts, is the owner on the job row, which is the
\* account of the job's debit transaction; no other account's row changes.
C38_RefundCreditsOwner ==
    [][\A p \in Procs :
          RefundCommitted(p)
          => LET j == tx[p].p_job_id
                 owner == jobs[j].user_id
                 t == transactions'[Len(transactions')]
             IN /\ Len(transactions') = Len(transactions) + 1
                /\ t.type = "refund" /\ t.job_id = j /\ t.user_id = owner
                /\ \A i \in TxOfJob(j, "debit") : transactions[i].user_id = owner
                /\ TxOfJob(j, "debit") # {}
                /\ users'[owner].balance = users[owner].balance + jobs[j].cost
                /\ users'[owner].promo_gen
                     = users[owner].promo_gen + jobs[j].promo_gen_used
                /\ \A a \in Accounts \ {owner} : users'[a] = users[a]]_vars

\* the job of one account was refunded after the other account was charged
\* too: the first account has its promo credits back, the other has not
C38_Witness ==
    \E j \in 1..Len(jobs), k \in 1..Len(jobs) :
        /\ jobs[j].user_id # jobs[k].user_id
        /\ RefundCount(j) = 1
        /\ RefundCount(k) = 0
        /\ jobs[j].promo_gen_used + jobs[j].cost > 0
        /\ users[jobs[j].user_id] = initUsers[jobs[j].user_id]
        /\ users[jobs[k].user_id] # initUsers[jobs[k].user_id]

(***************************************************************************)
(* Properties of the catalog.                                              *)
(***************************************************************************)
\* C39: for every model of the catalog and every parameter combination its
\* paramsSchema accepts, computeCost returns a strictly positive integer, so
\* POST /generate never answers invalid_cost for validated parameters: the
\* request goes on to create_job_and_debit with that price.
C39_AcceptedParamsHavePrice ==
    [][\A p \in CatalogSagas :
          (pc[p] = "start" /\ pc'[p] # "start")
          => /\ reply'[p].error # "invalid_cost"
             /\ ParamsAccepted(h'[p].body.model, h'[p].body.params)
                => /\ ComputeCost(h'[p].body.model,
                                  ParsedParams(h'[p].body.model, h'[p].body.params))
                        \in Nat \ {0}
                   /\ pc'[p] = "debit_select"
                   /\ h'[p].baseCost \in Nat \ {0}
                   /\ tx'[p].p_base_cost = h'[p].baseCost]_vars

\* the dearest combinations of three cost tables were priced and sent on to
\* the debit: this one is wan video-to-video at 1080p for 10 seconds
C39_Witness ==
    \E p \in CatalogSagas :
        /\ pc[p] = "debit_select"
        /\ h[p].body.model = "wan/2-6-video-to-video"
        /\ h[p].body.params.resolution = "1080p"
        /\ h[p].body.params.duration = "10"
        /\ tx[p].p_base_cost = 110

====
